---- MODULE Spec2Model ----
(***************************************************************************)
(* A model of the agent runtime of horiacristescu/agentic: the provider    *)
(* call adapter (framework/llm.py), the tool invocation wrapper            *)
(* (framework/tools.py) and the agent loop with its observer bus and       *)
(* checkpoints (framework/agents.py).                                      *)
(*                                                                         *)
(* Text is modelled symbolically: a message content is one of a few named  *)
(* texts, a model reply is a record saying which dialect it is written in  *)
(* and which AgentResponse it carries.  Python's None is the string "None".*)
(***************************************************************************)
EXTENDS Integers, Sequences, FiniteSets, TLC

None == "None"

(***************************************************************************)
(* Bounds of the model.                                                    *)
(***************************************************************************)
\* largest max_turns an agent is constructed with in Spec
MaxTurnsBound == 2
\* number of run() calls made on the agent in Spec
MaxRuns == 2
\* largest max_turns an agent is constructed with in SpecTools
ToolTurnsBound == 2
\* tool calls requested by the model over one run in SpecTools
MaxToolCalls == 2
\* messages of the agent state that is saved and loaded
RTMaxMessages == 2
\* largest turn_count and tokens_used of that state
RTMaxCount == 1
\* direct calls of Tool.run and LLM.call in a behaviour
MaxUnitCalls == 2
\* largest max_turns an agent is constructed with in SpecCkpt
CkptTurnsBound == 2
\* number of run() calls made in SpecCkpt
CkptRuns == 3

(***************************************************************************)
(* Data model (framework/messages.py).                                     *)
(***************************************************************************)
Roles == {"system", "user", "assistant", "tool"}

ErrorCode ==
    {"api_error", "validation_error", "execution_error", "timeout",
     "max_turns_reached", "parse_error", "content_filter", "empty_response"}

ResultStatus == {"success", "error", "max_turns_reached"}

\* ToolCall(id, tool, args): args is "good" (validates against the tool's
\* schema) or "bad" (does not).
ToolCall(id, tool, args) == [id |-> id, tool |-> tool, args |-> args]

NoMetadata == [reasoning |-> None, is_finished |-> None, finish_reason |-> None]

\* Message with every optional field at its default (None; no tool calls).
Message(role, content) ==
    [role |-> role, content |-> content, error_code |-> None,
     tool_calls |-> <<>>, metadata |-> NoMetadata,
     tool_call_id |-> None, name |-> None,
     tokens_in |-> 0, tokens_out |-> 0]

Result(value, status, error) == [value |-> value, status |-> status, error |-> error]

\* AgentResponse: tool_calls null is the empty sequence.
AgentResponse(reasoning, tool_calls, result, is_finished) ==
    [reasoning |-> reasoning, tool_calls |-> tool_calls,
     result |-> result, is_finished |-> is_finished]

PyBool(b) == IF b THEN "True" ELSE "False"

(***************************************************************************)
(* Tool invocation wrapper (framework/tools.py).  A tool is its name, and  *)
(* how its execute() behaves with the dependencies it was built with.      *)
(***************************************************************************)
Tool(name, behaviour) == [name |-> name, behaviour |-> behaviour]

\* behaviour: "returns" (a value), "returns_empty" (the empty string),
\* "raises" (an exception that is neither a TypeError nor a pydantic
\* ValidationError), "type_error" (execute() does not accept the
\* dependencies bound at construction), "raises_validation_error" (execute()
\* itself raises a pydantic ValidationError, as when it validates data).
ToolBehaviours ==
    {"returns", "returns_empty", "raises", "type_error", "raises_validation_error"}

\* What Tool.run gives: raised names the exception leaving it (None when it
\* returns), message is the Message it returns.
ToolReturn(tool, content, error_code) ==
    [raised |-> None,
     message |-> [Message("tool", content)
                    EXCEPT !.name = tool.name, !.error_code = error_code]]

\* Tool.run(input): validation, then execute(**dependencies); the three
\* except clauses turn every Exception into a returned Message.
ToolRun(tool, args) ==
    IF args = "bad" \/ tool.behaviour = "raises_validation_error"
    THEN ToolReturn(tool, "Invalid arguments for tool", "validation_error")
    ELSE IF tool.behaviour = "type_error"
    THEN ToolReturn(tool, "dependency mismatch", "execution_error")
    ELSE IF tool.behaviour = "raises"
    THEN ToolReturn(tool, "Tool execution error", "execution_error")
    ELSE IF tool.behaviour = "returns_empty"
    THEN ToolReturn(tool, "", None)
    ELSE ToolReturn(tool, "value", None)

(***************************************************************************)
(* Provider responses.  What the remote call gives back: a transport       *)
(* failure, or a response object with a shape, a finish reason, a content, *)
(* native tool calls and usage.                                            *)
(***************************************************************************)
CallId(i) == "call_" \o ToString(i)

NoResponse == AgentResponse(None, <<>>, None, FALSE)

\* content: form says how the text is written, resp which AgentResponse it
\* carries (NoResponse when it carries none).
\*   "None"               content is null
\*   "blank"              only whitespace
\*   "json"               one clean JSON object matching AgentResponse
\*   "fenced_json"        the same inside a markdown fence
\*   "wrong_schema_json"  a JSON object that is no AgentResponse
\*   "prose"              text with no brace at all
\*   "xml_tool_call"      <tool_call><function=..>..</function></tool_call> blocks
\*   "function_calls"     <function_calls>[ JSON array ]</function_calls>
\*   "bad_function_calls" <function_calls>[ not JSON ]</function_calls>
Content(form, resp) == [form |-> form, resp |-> resp]

NoNative == [kind |-> "none", calls |-> <<>>]

ProviderResponse(transport, shape, finish_reason, content, native, usage) ==
    [transport |-> transport, shape |-> shape, finish_reason |-> finish_reason,
     content |-> content, native |-> native, usage |-> usage]

Usage(p, c) == [prompt_tokens |-> p, completion_tokens |-> c]

(***************************************************************************)
(* Response normalizer (LLM._clean_markdown_response), on symbolic text.   *)
(***************************************************************************)
FallbackReasoning == "Calling tools to gather information."

\* _convert_xml_tool_call_format: ids are synthesized call_1, call_2, ...
ConvertXmlToolCallFormat(resp) ==
    AgentResponse(
        IF resp.reasoning = "" THEN FallbackReasoning ELSE resp.reasoning,
        [i \in 1..Len(resp.tool_calls) |->
            ToolCall(CallId(i), resp.tool_calls[i].tool, resp.tool_calls[i].args)],
        None, FALSE)

\* _convert_anthropic_format: the array is taken as the tool_calls value.
ConvertAnthropicFormat(resp) ==
    AgentResponse(
        IF resp.reasoning = "" THEN FallbackReasoning ELSE resp.reasoning,
        resp.tool_calls, None, FALSE)

\* [raised, content]: raised names the exception that leaves the normalizer.
CleanMarkdownResponse(content) ==
    IF content.form = "xml_tool_call"
    THEN [raised |-> None,
          content |-> Content("json", ConvertXmlToolCallFormat(content.resp))]
    ELSE IF content.form = "function_calls"
    THEN [raised |-> None,
          content |-> Content("json", ConvertAnthropicFormat(content.resp))]
    ELSE IF content.form = "bad_function_calls"
    THEN [raised |-> "JSONDecodeError", content |-> content]
    ELSE IF content.form = "fenced_json"
    THEN [raised |-> None, content |-> Content("json", content.resp)]
    ELSE [raised |-> None, content |-> content]

(***************************************************************************)
(* Provider call adapter (LLM.call).                                       *)
(***************************************************************************)
FatalErrors ==
    {"AuthError", "InvalidModelError", "PermissionError",
     "MalformedResponseError", "TransientProviderError"}

TransportErrors ==
    {"AuthenticationError", "BadRequestError", "PermissionDeniedError",
     "RateLimitError", "InternalServerError", "APIConnectionError",
     "APITimeoutError"}

ClassifyTransportError(e) ==
    IF e = "AuthenticationError" THEN "AuthError"
    ELSE IF e = "BadRequestError" THEN "InvalidModelError"
    ELSE IF e = "PermissionDeniedError" THEN "PermissionError"
    ELSE "TransientProviderError"

\* What call() gives: raised names the exception leaving it (None when it
\* returns), otherwise the returned Message's content, error_code and tokens.
LLMRaise(exc) ==
    [raised |-> exc, content |-> Content("None", NoResponse), text |-> None,
     error_code |-> None, tokens_in |-> 0, tokens_out |-> 0, finish_reason |-> None]

LLMReturn(content, text, error_code, r) ==
    [raised |-> None, content |-> content, text |-> text,
     error_code |-> error_code,
     tokens_in |-> r.usage.prompt_tokens, tokens_out |-> r.usage.completion_tokens,
     finish_reason |-> r.finish_reason]

\* the wrapping with ids of its own, call_1, call_2, ... in place of tc.id
NativeToolCallsRenumbered(r) ==
    Content("json",
        AgentResponse(
            IF r.content.form \in {"None", "blank"}
            THEN "Using tools to gather information." ELSE "prose",
            [i \in 1..Len(r.native.calls) |->
                ToolCall(CallId(i), r.native.calls[i].tool, r.native.calls[i].args)],
            None, FALSE))

\* native tool calls wrapped into the AgentResponse shape
NativeToolCallsContent(r) ==
    Content("json",
        AgentResponse(
            IF r.content.form \in {"None", "blank"}
            THEN "Using tools to gather information." ELSE "prose",
            r.native.calls, None, FALSE))

LLMCall(r) ==
    IF r.transport # "ok" THEN LLMRaise(ClassifyTransportError(r.transport))
    ELSE IF r.shape # "ok" THEN LLMRaise("MalformedResponseError")
    ELSE IF r.finish_reason = "tool_calls" /\ r.native.kind = "bad_args"
    THEN LLMRaise("JSONDecodeError")
    ELSE
      LET content == IF r.finish_reason = "tool_calls" /\ r.native.kind = "valid"
                     THEN NativeToolCallsContent(r) ELSE r.content
      IN  IF r.finish_reason = "content_filter"
          THEN LLMReturn(content, "Content was blocked by safety filters",
                         "content_filter", r)
          ELSE IF content.form \in {"None", "blank"}
          THEN LLMReturn(content, "API call succeeded but returned empty content",
                         "empty_response", r)
          ELSE LET cleaned == CleanMarkdownResponse(content)
               IN  IF cleaned.raised # None THEN LLMRaise(cleaned.raised)
                   ELSE LLMReturn(cleaned.content, "cleaned", None, r)

\* AgentResponse.model_validate_json on the cleaned content
ParsesAsAgentResponse(content) == content.form = "json"

(***************************************************************************)
(* The agent (framework/agents.py).  An agent is a record of its fields,   *)
(* the position of run() (pc and the locals of the turn in progress), how  *)
(* the last run() ended (outcome), and what its observers were told.       *)
(***************************************************************************)
Hooks == {"on_turn_start", "on_llm_response", "on_tool_execution",
          "on_finish", "on_error"}

NoOutcome ==
    [kind |-> "none", status |-> None, value |-> None, exc |-> None,
     turns |-> 0, tokens |-> 0, trajectory |-> <<>>]

\* LLM.__init__ sets model_name, model, temperature and max_tokens: an LLM
\* has no json_mode attribute
RepositoryLLM == "LLM"

\* an llm that has a json_mode attribute as well: an LLM whose creator set
\* it, or a double with the same call()
JsonModeLLM == "LLM with json_mode"

LLMs == {RepositoryLLM, JsonModeLLM}

\* self.llm.json_mode can be read
HasJsonMode(llm) == llm = JsonModeLLM

\* Agent.__init__.  An observer is the set of hooks it implements.
NewAgent(llm, tools, observers, max_turns) ==
    [llm |-> llm, tools |-> tools, observers |-> observers, max_turns |-> max_turns,
     messages |-> <<>>, turn_count |-> 0, tokens_used |-> 0,
     pc |-> "idle", cur |-> NoResponse, idx |-> 0, tool_results |-> <<>>,
     auto_checkpoint |-> FALSE, outcome |-> NoOutcome,
     events |-> <<>>, obs_raised |-> FALSE, escaped |-> FALSE]

\* Agent._notify without its try/except: the first failing hook ends the
\* delivery and its exception leaves _notify.
NotifyUnguarded(observers, event, bad) ==
    LET impl == {i \in 1..Len(observers) : event \in observers[i]}
        failing == {i \in impl : i \in bad}
        stop == IF failing = {} THEN Len(observers)
                ELSE CHOOSE i \in failing : \A j \in failing : i <= j
    IN  [invoked |-> SelectSeq([i \in 1..Len(observers) |-> i],
                               LAMBDA i : i \in impl /\ i <= stop),
         raised |-> failing # {},
         escaped |-> failing # {}]

\* Agent._notify with one try/except around the whole loop: the first
\* failing hook ends the delivery, and its exception is swallowed.
NotifyStopsAtFailure(observers, event, bad) ==
    [NotifyUnguarded(observers, event, bad) EXCEPT !.escaped = FALSE]

\* Agent._notify(event): every observer that implements the hook is called
\* in list order; bad is the set of observers whose hook raises an Exception
\* during this notification.  Each exception is logged and swallowed.
Notify(observers, event, bad) ==
    LET impl == {i \in 1..Len(observers) : event \in observers[i]}
    IN  [invoked |-> SelectSeq([i \in 1..Len(observers) |-> i],
                               LAMBDA i : i \in impl),
         raised |-> \E i \in impl : i \in bad,
         escaped |-> FALSE]

\* a hook call as the observer sees it: the hook, the turn keyword and, for
\* on_error, the error keyword
Event(observer, event, turn) ==
    [observer |-> observer, event |-> event, turn |-> turn, error |-> None]

\* the call is that hook of that observer for that turn
Told(e, observer, event, turn) ==
    e.observer = observer /\ e.event = event /\ e.turn = turn

\* self._notify(event, turn=...) inside run(): nothing more happens once an
\* exception is on its way out of the loop.
Notified(a, event, turn, bad) ==
    IF a.escaped THEN a
    ELSE LET n == Notify(a.observers, event, bad)
         IN  [a EXCEPT
                !.events = @ \o [k \in 1..Len(n.invoked) |->
                                    Event(n.invoked[k], event, turn)],
                !.obs_raised = @ \/ n.raised,
                !.escaped = n.escaped]

\* self._notify("on_error", turn=..., error=...) inside run()
NotifiedError(a, turn, error, bad) ==
    LET told == Notified(a, "on_error", turn, bad)
        before == IF a.escaped THEN Len(told.events) ELSE Len(a.events)
    IN  [told EXCEPT !.events = [k \in 1..Len(told.events) |->
                                    IF k > before
                                    THEN [told.events[k] EXCEPT !.error = error]
                                    ELSE told.events[k]]]

\* An exception leaves _run_loop.
Raised(a, exc) ==
    [a EXCEPT !.pc = "idle", !.escaped = FALSE,
              !.outcome = [NoOutcome EXCEPT !.kind = "raised", !.exc = exc]]

\* return final_result
Returned(a, value, status, trajectory) ==
    [a EXCEPT !.pc = "idle",
              !.outcome = [kind |-> "returned", status |-> status, value |-> value,
                           exc |-> None, turns |-> a.turn_count,
                           tokens |-> a.tokens_used, trajectory |-> trajectory]]

Append1(a, msg) == [a EXCEPT !.messages = Append(@, msg)]

(***************************************************************************)
(* Checkpoints: the file holds the messages and the two counters.          *)
(***************************************************************************)
\* JSON null is not Python's None: a value on its way to the file and back
JsonNull == "null"
ToJson(v) == IF v = None THEN JsonNull ELSE v
FromJson(v) == IF v = JsonNull THEN None ELSE v

\* msg.model_dump(mode="json"): enum members become their values, None null
MessageToJson(m) ==
    [role |-> m.role, content |-> m.content, error_code |-> ToJson(m.error_code),
     tool_calls |-> m.tool_calls,
     metadata |-> [k \in DOMAIN m.metadata |-> ToJson(m.metadata[k])],
     tool_call_id |-> ToJson(m.tool_call_id), name |-> ToJson(m.name),
     tokens_in |-> m.tokens_in, tokens_out |-> m.tokens_out]

\* Message(**msg_dict): validation turns the values back into the fields
MessageFromJson(d) ==
    [role |-> d.role, content |-> d.content, error_code |-> FromJson(d.error_code),
     tool_calls |-> d.tool_calls,
     metadata |-> [k \in DOMAIN d.metadata |-> FromJson(d.metadata[k])],
     tool_call_id |-> FromJson(d.tool_call_id), name |-> FromJson(d.name),
     tokens_in |-> d.tokens_in, tokens_out |-> d.tokens_out]

\* save_checkpoint: the new content of the file
SaveCheckpoint(a) ==
    [messages |-> [i \in 1..Len(a.messages) |-> MessageToJson(a.messages[i])],
     turn_count |-> a.turn_count, tokens_used |-> a.tokens_used]

\* load_checkpoint
LoadCheckpoint(a, ck) ==
    [a EXCEPT !.messages = [i \in 1..Len(ck.messages) |-> MessageFromJson(ck.messages[i])],
              !.turn_count = ck.turn_count,
              !.tokens_used = ck.tokens_used]

(***************************************************************************)
(* Agent.run and Agent._run_loop, one operator per stretch of code between *)
(* two blocking calls (the provider call, a tool execution).               *)
(***************************************************************************)
SystemPrompt == "system prompt"
MaxTurnsMarker == "[MAX_TURNS] Agent did not complete within turn limit"
EmptyResponseNudge == "Your last response was empty. Please respond with valid JSON"
InvalidFormatMessage == "Invalid response format"

\* a reset that forgets the token counter
RunLoopEntryKeepsTokens(a, input, reset) ==
    LET fresh == IF reset \/ a.messages = <<>>
                 THEN [a EXCEPT !.messages = <<Message("system", SystemPrompt)>>,
                                !.turn_count = 0]
                 ELSE a
    IN  [Append1(fresh, Message("user", input)) EXCEPT !.pc = "loop"]

\* _run_loop up to the while: the reset and the user message
RunLoopEntry(a, input, reset) ==
    LET fresh == IF reset \/ a.messages = <<>>
                 THEN [a EXCEPT !.messages = <<Message("system", SystemPrompt)>>,
                                !.turn_count = 0,
                                !.tokens_used = 0]
                 ELSE a
    IN  [Append1(fresh, Message("user", input)) EXCEPT !.pc = "loop"]

\* run() that hands its reset argument to the loop even after a load
RunEntryResetKept(a, input, reset, checkpoint, auto_checkpoint, file) ==
    LET a0 == [a EXCEPT !.outcome = NoOutcome, !.events = <<>>,
                        !.obs_raised = FALSE, !.escaped = FALSE,
                        !.cur = NoResponse, !.idx = 0, !.tool_results = <<>>,
                        !.auto_checkpoint = FALSE]
    IN  IF checkpoint /\ file = <<>>
        THEN Raised(a0, "FileNotFoundError")
        ELSE LET loaded == IF checkpoint THEN LoadCheckpoint(a0, file[1]) ELSE a0
             IN  [RunLoopEntry(loaded, input, reset)
                    EXCEPT !.auto_checkpoint = auto_checkpoint]

\* run(input, reset, checkpoint, auto_checkpoint) up to the loop.  file is
\* the content of the checkpoint path: <<>> when there is no such file.
RunEntry(a, input, reset, checkpoint, auto_checkpoint, file) ==
    LET a0 == [a EXCEPT !.outcome = NoOutcome, !.events = <<>>,
                        !.obs_raised = FALSE, !.escaped = FALSE,
                        !.cur = NoResponse, !.idx = 0, !.tool_results = <<>>,
                        !.auto_checkpoint = FALSE]
    IN  IF checkpoint /\ file = <<>>
        THEN Raised(a0, "FileNotFoundError")
        ELSE LET loaded == IF checkpoint THEN LoadCheckpoint(a0, file[1]) ELSE a0
             IN  [RunLoopEntry(loaded, input, reset /\ ~checkpoint)
                    EXCEPT !.auto_checkpoint = auto_checkpoint]

\* the except clause without TransientProviderError
ReraisedWithoutTransient(exc) == exc \in FatalErrors \ {"TransientProviderError"}

\* except (AuthError, InvalidModelError, PermissionError,
\*         MalformedResponseError, TransientProviderError): raise
Reraised(exc) == exc \in FatalErrors

\* _get_agent_response: [kind, agent, ...].  kind is "raise" (exc leaves the
\* loop), "semantic" (error_code, error_message, finish_reason of the
\* diagnostic metadata) or "parsed" (resp).  raw_response is the entry of
\* that name in the metadata of the Result: the content of the provider's
\* message for a semantic error (named here by its form when it is text that
\* failed to parse, empty when LLM.call raised JSONDecodeError), and
\* response_content, which stays "", for a parsed response.
GetAgentResponse(a, r) ==
    LET m == LLMCall(r)
        counted == [a EXCEPT !.tokens_used = @ + m.tokens_in + m.tokens_out]
    IN  IF Reraised(m.raised)
        THEN [kind |-> "raise", agent |-> a, exc |-> m.raised,
              error_code |-> None, error_message |-> None,
              finish_reason |-> None, resp |-> NoResponse, raw_response |-> None]
        ELSE IF m.raised = "JSONDecodeError"
        THEN [kind |-> "semantic", agent |-> a, exc |-> None,
              error_code |-> "parse_error", error_message |-> InvalidFormatMessage,
              finish_reason |-> None, resp |-> NoResponse, raw_response |-> ""]
        ELSE IF m.error_code # None
        THEN [kind |-> "semantic", agent |-> counted, exc |-> None,
              error_code |-> m.error_code, error_message |-> m.text,
              finish_reason |-> m.finish_reason, resp |-> NoResponse,
              raw_response |-> m.text]
        ELSE IF ~ParsesAsAgentResponse(m.content)
        THEN [kind |-> "semantic", agent |-> counted, exc |-> None,
              error_code |-> "parse_error", error_message |-> InvalidFormatMessage,
              finish_reason |-> None, resp |-> NoResponse,
              raw_response |-> m.content.form]
        ELSE [kind |-> "parsed", agent |-> counted, exc |-> None,
              error_code |-> None, error_message |-> None,
              finish_reason |-> None, resp |-> m.content.resp, raw_response |-> ""]

\* error_str: what on_error is told about a semantic error
SemanticErrorText(g) == "Semantic error: " \o g.error_code

\* the same message built without its error_code
SemanticErrorMessageNoCode(g) ==
    [Message("assistant",
             IF g.error_code = "empty_response" THEN EmptyResponseNudge
             ELSE g.error_message)
       EXCEPT !.metadata = [NoMetadata EXCEPT !.finish_reason = g.finish_reason]]

\* the assistant message appended for a semantic error
SemanticErrorMessage(g) ==
    [Message("assistant",
             IF g.error_code = "empty_response" THEN EmptyResponseNudge
             ELSE g.error_message)
       EXCEPT !.error_code = g.error_code,
              !.metadata = [NoMetadata EXCEPT !.finish_reason = g.finish_reason]]

\* the assistant message appended for a parsed response; its content is
\* metadata["raw_response"], which _get_agent_response sets to response_content
AssistantMessage(resp) ==
    [Message("assistant", "")
       EXCEPT !.tool_calls = resp.tool_calls,
              !.metadata = [NoMetadata EXCEPT !.reasoning = resp.reasoning,
                                              !.is_finished = PyBool(resp.is_finished)]]

\* the end of a turn without the is_finished test
FinishCheckNeverReturns(a, bad) ==
    IF a.escaped THEN a ELSE [a EXCEPT !.pc = "loop"]

\* the end of a turn: return on is_finished, otherwise back to the while
FinishCheck(a, bad) ==
    IF a.escaped THEN a
    ELSE IF a.cur.is_finished
    THEN Notified(Returned(a, a.cur.result, "success", a.messages),
                  "on_finish", 0, bad)
    ELSE [a EXCEPT !.pc = "loop"]

\* an exception on its way out of the loop ends the step
Settled(a) == IF a.escaped THEN Raised(a, "ObserverException") ELSE a

\* the loop condition off by one
LoopContinuesOffByOne(a) == a.turn_count <= a.max_turns

\* while self.turn_count < self.max_turns
LoopContinues(a) == a.turn_count < a.max_turns

\* the iteration with the is_finished test ahead of the tool calls: a
\* finishing response returns without its calls being executed
TurnStepFinishFirst(a, r, bad) ==
    LET started == Notified([a EXCEPT !.turn_count = @ + 1, !.cur = NoResponse,
                                      !.idx = 0, !.tool_results = <<>>],
                            "on_turn_start", a.turn_count + 1, bad)
        g == GetAgentResponse(started, r)
    IN  IF ~HasJsonMode(a.llm)
        THEN Raised([a EXCEPT !.turn_count = @ + 1], "AttributeError")
        ELSE IF started.escaped THEN Settled(started)
        ELSE IF g.kind = "raise" THEN Raised(g.agent, g.exc)
        ELSE IF g.kind = "semantic"
        THEN Settled(NotifiedError(Append1(g.agent, SemanticErrorMessage(g)),
                                   g.agent.turn_count, SemanticErrorText(g), bad))
        ELSE LET said == Notified(
                            [Append1(g.agent, AssistantMessage(g.resp))
                               EXCEPT !.cur = g.resp],
                            "on_llm_response", g.agent.turn_count, bad)
             IN  IF Len(g.resp.tool_calls) > 0 /\ ~g.resp.is_finished
                 THEN Settled([said EXCEPT !.pc = "tools", !.idx = 1])
                 ELSE Settled(FinishCheck(said, bad))

\* the iteration with the turn counted only once the provider call is back:
\* a call that raises leaves turn_count as it was
TurnStepRaiseUncounted(a, r, bad) ==
    LET started == Notified([a EXCEPT !.turn_count = @ + 1, !.cur = NoResponse,
                                      !.idx = 0, !.tool_results = <<>>],
                            "on_turn_start", a.turn_count + 1, bad)
        g == GetAgentResponse(started, r)
    IN  IF ~HasJsonMode(a.llm)
        THEN Raised([a EXCEPT !.turn_count = @ + 1], "AttributeError")
        ELSE IF started.escaped THEN Settled(started)
        ELSE IF g.kind = "raise"
        THEN Raised([g.agent EXCEPT !.turn_count = a.turn_count], g.exc)
        ELSE IF g.kind = "semantic"
        THEN Settled(NotifiedError(Append1(g.agent, SemanticErrorMessage(g)),
                                   g.agent.turn_count, SemanticErrorText(g), bad))
        ELSE LET said == Notified(
                            [Append1(g.agent, AssistantMessage(g.resp))
                               EXCEPT !.cur = g.resp],
                            "on_llm_response", g.agent.turn_count, bad)
             IN  IF Len(g.resp.tool_calls) > 0
                 THEN Settled([said EXCEPT !.pc = "tools", !.idx = 1])
                 ELSE Settled(FinishCheck(said, bad))

\* One iteration of the while up to the first tool execution: the turn
\* counter, the arguments of on_turn_start (reading self.llm.json_mode
\* raises AttributeError on an LLM without it), on_turn_start, the provider
\* call r and what the loop does with its outcome.
TurnStep(a, r, bad) ==
    LET started == Notified([a EXCEPT !.turn_count = @ + 1, !.cur = NoResponse,
                                      !.idx = 0, !.tool_results = <<>>],
                            "on_turn_start", a.turn_count + 1, bad)
        g == GetAgentResponse(started, r)
    IN  IF ~HasJsonMode(a.llm)
        THEN Raised([a EXCEPT !.turn_count = @ + 1], "AttributeError")
        ELSE IF started.escaped THEN Settled(started)
        ELSE IF g.kind = "raise" THEN Raised(g.agent, g.exc)
        ELSE IF g.kind = "semantic"
        THEN Settled(NotifiedError(Append1(g.agent, SemanticErrorMessage(g)),
                                   g.agent.turn_count, SemanticErrorText(g), bad))
        ELSE LET said == Notified(
                            [Append1(g.agent, AssistantMessage(g.resp))
                               EXCEPT !.cur = g.resp],
                            "on_llm_response", g.agent.turn_count, bad)
             IN  IF Len(g.resp.tool_calls) > 0
                 THEN Settled([said EXCEPT !.pc = "tools", !.idx = 1])
                 ELSE Settled(FinishCheck(said, bad))

\* _find_tool that settles for the first tool of that name
FindToolFirstMatch(tools, tool_name) ==
    LET matching == SelectSeq(tools, LAMBDA t : t.name = tool_name)
    IN  IF matching = <<>> THEN <<>> ELSE <<matching[1]>>

\* _find_tool: the tools with that name, when there is exactly one
FindTool(tools, tool_name) ==
    LET matching == SelectSeq(tools, LAMBDA t : t.name = tool_name)
    IN  IF Len(matching) # 1 THEN <<>> ELSE matching

\* the Result of a tool call, with its metadata; raised names an exception
\* that left Tool.run instead
ToolResult(status, value, error, tc) ==
    [status |-> status, value |-> value, error |-> error,
     tool_call_id |-> tc.id, tool_name |-> tc.tool, raised |-> None]

\* _execute_single_tool
ExecuteSingleTool(tools, tc) ==
    LET tool == FindTool(tools, tc.tool)
    IN  IF tool = <<>>
        THEN ToolResult("error", None, "Tool not found", tc)
        ELSE LET ran == ToolRun(tool[1], tc.args)
                 result_msg == ran.message
             IN  IF ran.raised # None
                 THEN [ToolResult("error", None, None, tc) EXCEPT !.raised = ran.raised]
                 ELSE IF result_msg.error_code = None
                 THEN ToolResult("success", result_msg.content, None, tc)
                 ELSE ToolResult("error", None, result_msg.content, tc)

\* the tool-role message built without the id of the call it answers
ToolMessageWithoutId(result) ==
    LET picked == IF result.status = "success" THEN result.value ELSE result.error
    IN  [Message("tool", IF picked \in {None, ""} THEN "No result" ELSE picked)
           EXCEPT !.name = result.tool_name]

\* the tool-role message _execute_tools appends for a result
ToolMessage(result) ==
    LET picked == IF result.status = "success" THEN result.value ELSE result.error
    IN  [Message("tool", IF picked \in {None, ""} THEN "No result" ELSE picked)
           EXCEPT !.tool_call_id = result.tool_call_id,
                  !.name = result.tool_name]

RECURSIVE NotifyFailed(_, _, _)
\* for failed in failed_tools: self._notify("on_error", ...)
NotifyFailed(a, failed, bad) ==
    IF failed = <<>> THEN a
    ELSE NotifyFailed(NotifiedError(a, a.turn_count,
                                    IF Head(failed).error \in {None, ""}
                                    THEN "Unknown error" ELSE Head(failed).error,
                                    bad),
                      Tail(failed), bad)

\* a for loop that a failed result breaks
ForContinuesUnlessFailed(a, result) ==
    result.status = "success" /\ a.idx <= Len(a.cur.tool_calls)

\* for tool_call in tool_calls: a is the agent after the call at idx - 1
ForContinues(a, result) == a.idx <= Len(a.cur.tool_calls)

\* the calls of the turn taken from the last one backwards
NextToolCallReversed(a) == a.cur.tool_calls[Len(a.cur.tool_calls) - a.idx + 1]

\* for tool_call in tool_calls: the call the iteration at idx is about
NextToolCall(a) == a.cur.tool_calls[a.idx]

\* One iteration of the for loop of _execute_tools; after the last one, the
\* on_error notifications for the failed results and the end of the turn.
ToolStep(a, bad) ==
    LET tc == NextToolCall(a)
        result == ExecuteSingleTool(a.tools, tc)
        done == Notified([Append1(a, ToolMessage(result))
                            EXCEPT !.tool_results = Append(@, result),
                                   !.idx = @ + 1],
                         "on_tool_execution", a.turn_count, bad)
        failed == SelectSeq(done.tool_results, LAMBDA x : x.status # "success")
    IN  IF result.raised # None THEN Raised(a, result.raised)
        ELSE IF ForContinues(done, result)
        THEN Settled(done)
        ELSE Settled(FinishCheck(NotifyFailed(done, failed, bad), bad))

MaxTurnsError == "Max turns reached"

\* the code after the while: the turn budget is spent
MaxTurnsStep(a, bad) ==
    Settled(NotifiedError(Returned(a, MaxTurnsMarker, "max_turns_reached",
                                   a.messages),
                          a.turn_count, MaxTurnsError, bad))

(***************************************************************************)
(* State.                                                                  *)
(*   agent            the Agent under test                                 *)
(*   twin             the same agent built with no observers and run       *)
(*                    without auto_checkpoint, given the same calls,       *)
(*                    provider responses and tool behaviour                *)
(*   checkpoint_file  content of the checkpoint path (<<>>: no file)       *)
(*   runs             run() calls made so far                              *)
(*   llm_calls        provider calls made by the current run               *)
(*   reported_tokens  input+output tokens the provider reported to the     *)
(*                    current run, over all its calls                      *)
(*   start            counters and message sequence when the current run   *)
(*                    entered its loop                                     *)
(*   last_response    what the latest provider call of the current run     *)
(*                    gave (NoProviderResponse before the first)           *)
(*   unit             the direct calls of Tool.run and LLM.call made by a   *)
(*                    caller other than the loop, each with what it gave,   *)
(*                    and the chat requests put to the web debugger         *)
(*   trace            a recorded file-navigator conversation handed to the  *)
(*                    trace validators, with the Result of its run          *)
(***************************************************************************)
VARIABLES agent, twin, checkpoint_file, runs, llm_calls, reported_tokens, start,
          last_response, unit, trace

vars == <<agent, twin, checkpoint_file, runs, llm_calls, reported_tokens, start,
          last_response, unit, trace>>

\* no conversation has been recorded
NoTrace == [messages |-> <<>>, final_result |-> [status |-> None]]

AllHooks == Hooks

\* the tools the agent is built with: two of them share a name
Tools ==
    <<Tool("calculator", "returns"), Tool("flaky", "raises"),
      Tool("nodeps", "type_error"), Tool("echo", "returns_empty"),
      Tool("dup", "returns"), Tool("dup", "returns")>>

Inputs == {"task"}

NoProviderResponse ==
    ProviderResponse(None, None, None, Content("None", NoResponse), NoNative, Usage(0, 0))

NoStart ==
    [turn_count |-> 0, tokens_used |-> 0, messages |-> <<>>,
     reset |-> FALSE, checkpoint |-> FALSE, auto_checkpoint |-> FALSE]

ReportedTokens(r) ==
    IF r.transport = "ok" /\ r.shape = "ok"
    THEN r.usage.prompt_tokens + r.usage.completion_tokens ELSE 0

\* the file written with the state the step began with
FileAfterStale(before, after, file) ==
    IF after.outcome.kind = "raised" /\ before.auto_checkpoint
    THEN <<SaveCheckpoint(before)>> ELSE file

\* the file written in a finally clause, whatever way run() ends
FileAfterFinally(before, after, file) ==
    IF after.pc = "idle" /\ before.auto_checkpoint
    THEN <<SaveCheckpoint(after)>> ELSE file

\* the file after a step of run(): written when an exception leaves the
\* loop and auto_checkpoint was given
FileAfter(before, after, file) ==
    IF after.outcome.kind = "raised" /\ before.auto_checkpoint
    THEN <<SaveCheckpoint(after)>> ELSE file

\* the twin follows the agent's step when it is at the same place
TwinAfter(next) == IF twin.pc = agent.pc THEN next ELSE twin

\* run(input, reset, checkpoint, auto_checkpoint) is called
Run(input, reset, checkpoint, auto_checkpoint) ==
    /\ agent.pc = "idle"
    /\ LET a == RunEntry(agent, input, reset, checkpoint, auto_checkpoint,
                         checkpoint_file)
       IN  /\ agent' = a
           /\ twin' = TwinAfter(RunEntry(twin, input, reset, checkpoint,
                                         FALSE, checkpoint_file))
           /\ start' = [turn_count |-> a.turn_count,
                        tokens_used |-> a.tokens_used,
                        messages |-> a.messages,
                        reset |-> reset, checkpoint |-> checkpoint,
                        auto_checkpoint |-> auto_checkpoint]
    /\ runs' = runs + 1
    /\ llm_calls' = 0
    /\ reported_tokens' = 0
    /\ last_response' = NoProviderResponse
    /\ UNCHANGED <<checkpoint_file, unit, trace>>

\* the loop begins its next iteration; its provider call, when the
\* iteration gets that far, gives r
ModelCall(r, bad) ==
    /\ agent.pc = "loop"
    /\ LoopContinues(agent)
    /\ agent' = TurnStep(agent, r, bad)
    /\ twin' = TwinAfter(TurnStep(twin, r, {}))
    /\ checkpoint_file' = FileAfter(agent, agent', checkpoint_file)
    /\ llm_calls' = IF HasJsonMode(agent.llm) THEN llm_calls + 1 ELSE llm_calls
    /\ reported_tokens' = IF HasJsonMode(agent.llm)
                          THEN reported_tokens + ReportedTokens(r)
                          ELSE reported_tokens
    /\ last_response' = IF HasJsonMode(agent.llm) THEN r ELSE last_response
    /\ UNCHANGED <<runs, start, unit, trace>>

\* the loop executes the next tool call of the turn
ExecTool(bad) ==
    /\ agent.pc = "tools"
    /\ agent' = ToolStep(agent, bad)
    /\ twin' = TwinAfter(ToolStep(twin, {}))
    /\ checkpoint_file' = FileAfter(agent, agent', checkpoint_file)
    /\ UNCHANGED <<runs, llm_calls, reported_tokens, start, last_response, unit, trace>>

\* the loop ends because the turn budget is spent
MaxTurns(bad) ==
    /\ agent.pc = "loop"
    /\ ~LoopContinues(agent)
    /\ agent' = MaxTurnsStep(agent, bad)
    /\ twin' = TwinAfter(MaxTurnsStep(twin, {}))
    /\ checkpoint_file' = FileAfter(agent, agent', checkpoint_file)
    /\ UNCHANGED <<runs, llm_calls, reported_tokens, start, last_response, unit, trace>>

\* the caller saves a checkpoint between two runs
CallerSaves ==
    /\ agent.pc = "idle"
    /\ checkpoint_file' = <<SaveCheckpoint(agent)>>
    /\ checkpoint_file' # checkpoint_file
    /\ UNCHANGED <<agent, twin, runs, llm_calls, reported_tokens, start, last_response,
                   unit, trace>>

\* a new Agent is constructed (a new process): the file stays
Construct(llm, observers, max_turns) ==
    /\ agent.pc = "idle"
    /\ agent.messages # <<>>
    /\ agent' = NewAgent(llm, Tools, observers, max_turns)
    /\ twin' = NewAgent(llm, Tools, <<>>, max_turns)
    /\ llm_calls' = 0
    /\ reported_tokens' = 0
    /\ start' = NoStart
    /\ last_response' = NoProviderResponse
    /\ UNCHANGED <<checkpoint_file, runs, unit, trace>>

Observers == {i \in 1..Len(agent.observers) : TRUE}

(***************************************************************************)
(* Provider responses the specifications draw from.                        *)
(***************************************************************************)
NoContent == Content("None", NoResponse)

TransportFailures ==
    {ProviderResponse(e, "ok", "stop", NoContent, NoNative, Usage(0, 0)) :
        e \in TransportErrors}

ContractViolations(usages) ==
    {ProviderResponse("ok", shape, "stop", NoContent, NoNative, u) :
        shape \in {"no_choices", "no_usage", "no_message"}, u \in usages}

\* responses that carry no AgentResponse
Unstructured(usages) ==
    {ProviderResponse("ok", "ok", "content_filter", NoContent, NoNative, u) :
        u \in usages}
    \cup {ProviderResponse("ok", "ok", "stop", Content(form, NoResponse), NoNative, u) :
            form \in {"None", "blank", "prose", "wrong_schema_json",
                      "bad_function_calls"},
            u \in usages}
    \cup {ProviderResponse("ok", "ok", "tool_calls", NoContent,
                           [kind |-> "bad_args", calls |-> <<>>], u) :
            u \in usages}

\* responses that carry resp as text, in the forms given
Structured(forms, resps, usages) ==
    {ProviderResponse("ok", "ok", "stop", Content(form, resp), NoNative, u) :
        form \in forms, resp \in resps, u \in usages}

\* responses that carry tool calls natively
Native(callseqs, usages) ==
    {ProviderResponse("ok", "ok", "tool_calls", NoContent,
                      [kind |-> "valid", calls |-> calls], u) :
        calls \in callseqs, u \in usages}

SeqsUpTo(S, n) == UNION {[1..k -> S] : k \in 0..n}

(***************************************************************************)
(* Spec: the control flow of run() over several calls, with observers      *)
(* whose hooks may raise.                                                  *)
(***************************************************************************)
ObserverConfigs == {<<{"on_turn_start", "on_error"}, AllHooks>>}

LoopUsages == {Usage(1, 0), Usage(1, 1)}

LoopToolCalls ==
    {<<>>, <<ToolCall("call_1", "calculator", "good")>>,
     <<ToolCall("call_1", "calculator", "good"), ToolCall("call_2", "calculator", "bad")>>}

LoopAgentResponses ==
    {AgentResponse("thinking", tc, None, FALSE) : tc \in LoopToolCalls}
    \cup {AgentResponse("thinking", tc, res, TRUE) :
            tc \in LoopToolCalls, res \in {None, "answer"}}

LoopResponses ==
    TransportFailures
    \cup ContractViolations({Usage(1, 1)})
    \cup Unstructured(LoopUsages)
    \cup Structured({"json"}, LoopAgentResponses, LoopUsages)
    \cup Structured({"xml_tool_call", "function_calls"},
                    {AgentResponse("", <<ToolCall("call_1", "calculator", "good")>>,
                                   None, FALSE)}, {Usage(1, 1)})
    \cup Native(LoopToolCalls \ {<<>>}, {Usage(1, 1)})

Init ==
    \E m \in 1..MaxTurnsBound, obs \in ObserverConfigs, llm \in LLMs :
        /\ agent = NewAgent(llm, Tools, obs, m)
        /\ twin = NewAgent(llm, Tools, <<>>, m)
        /\ checkpoint_file = <<>>
        /\ runs = 0
        /\ llm_calls = 0
        /\ reported_tokens = 0
        /\ start = NoStart
        /\ last_response = NoProviderResponse
        /\ unit = <<>>
        /\ trace = NoTrace

Next ==
    \/ \E input \in Inputs, reset \in BOOLEAN :
          runs < MaxRuns /\ Run(input, reset, FALSE, FALSE)
    \/ \E r \in LoopResponses, bad \in SUBSET Observers : ModelCall(r, bad)
    \/ \E bad \in SUBSET Observers : ExecTool(bad)
    \/ \E bad \in SUBSET Observers : MaxTurns(bad)

Spec == Init /\ [][Next]_vars

(***************************************************************************)
(* SpecTools: one fresh run in which the model requests tool calls of      *)
(* every kind, with ids of its choosing.                                   *)
(***************************************************************************)
ToolCallOptions ==
    {ToolCall(id, kind[1], kind[2]) :
        id \in {"call_1", "call_2"},
        kind \in {<<"calculator", "good">>, <<"calculator", "bad">>,
                  <<"flaky", "good">>, <<"nodeps", "good">>,
                  <<"ghost", "good">>, <<"dup", "good">>}}

RECURSIVE RequestedCalls(_)
\* tool calls requested by the assistant messages of a sequence
RequestedCalls(messages) ==
    IF messages = <<>> THEN 0
    ELSE Len(Head(messages).tool_calls) + RequestedCalls(Tail(messages))

ToolResponses(n) ==
    Structured({"json"},
               {AgentResponse("thinking", tc, "answer", fin) :
                    tc \in SeqsUpTo(ToolCallOptions, n), fin \in BOOLEAN},
               {Usage(1, 1)})
    \cup Structured({"xml_tool_call"},
               {AgentResponse("", tc, None, FALSE) :
                    tc \in SeqsUpTo(ToolCallOptions, n) \ {<<>>}},
               {Usage(1, 1)})
    \cup Native(SeqsUpTo(ToolCallOptions, n) \ {<<>>}, {Usage(1, 1)})

InitTools ==
    \E m \in 1..ToolTurnsBound, llm \in LLMs :
        /\ agent = NewAgent(llm, Tools, <<AllHooks>>, m)
        /\ twin = NewAgent(llm, Tools, <<>>, m)
        /\ checkpoint_file = <<>>
        /\ runs = 0
        /\ llm_calls = 0
        /\ reported_tokens = 0
        /\ start = NoStart
        /\ last_response = NoProviderResponse
        /\ unit = <<>>
        /\ trace = NoTrace

NextTools ==
    \/ runs < 1 /\ Run("task", TRUE, FALSE, FALSE)
    \/ \E r \in ToolResponses(MaxToolCalls - RequestedCalls(agent.messages)) :
          ModelCall(r, {})
    \/ ExecTool({})
    \/ MaxTurns({})

SpecTools == InitTools /\ [][NextTools]_vars

(***************************************************************************)
(* SpecCkpt: runs that are continued, resumed from the checkpoint file or  *)
(* started afresh, on agents that may be constructed anew between runs.    *)
(***************************************************************************)
CkptAgentResponses ==
    {AgentResponse("thinking", <<>>, "answer", fin) : fin \in BOOLEAN}

CkptResponses ==
    {ProviderResponse("APITimeoutError", "ok", "stop", NoContent, NoNative, Usage(0, 0)),
     ProviderResponse("ok", "ok", "content_filter", NoContent, NoNative, Usage(1, 1))}
    \cup Structured({"json"}, CkptAgentResponses, {Usage(1, 1)})

\* the observers of an agent constructed anew: none, or one with every hook
CkptObservers == {<<>>, <<AllHooks>>}

InitCkpt ==
    \E m \in 1..CkptTurnsBound, llm \in LLMs :
        /\ agent = NewAgent(llm, Tools, <<>>, m)
        /\ twin = NewAgent(llm, Tools, <<>>, m)
        /\ checkpoint_file = <<>>
        /\ runs = 0
        /\ llm_calls = 0
        /\ reported_tokens = 0
        /\ start = NoStart
        /\ last_response = NoProviderResponse
        /\ unit = <<>>
        /\ trace = NoTrace

NextCkpt ==
    \/ \E input \in Inputs, reset \in BOOLEAN, checkpoint \in BOOLEAN, auto \in BOOLEAN :
          runs < CkptRuns /\ Run(input, reset, checkpoint, auto)
    \/ \E r \in CkptResponses : ModelCall(r, {})
    \/ MaxTurns({})
    \/ CallerSaves
    \/ \E m \in 1..CkptTurnsBound, obs \in CkptObservers, llm \in LLMs :
          runs < CkptRuns /\ Construct(llm, obs, m)

SpecCkpt == InitCkpt /\ [][NextCkpt]_vars

(***************************************************************************)
(* SpecUnit: a caller other than the loop calls Tool.run and LLM.call,     *)
(* with every tool behaviour and every kind of provider outcome.           *)
(***************************************************************************)
UnitTools == {Tool("calculator", b) : b \in ToolBehaviours}

UnitArgs == {"good", "bad"}

UnitAgentResponse ==
    AgentResponse("thinking", <<ToolCall("call_1", "calculator", "good")>>, None, FALSE)

ContentForms ==
    {"None", "blank", "json", "fenced_json", "wrong_schema_json", "prose",
     "xml_tool_call", "function_calls", "bad_function_calls"}

\* the content of a form: the forms that carry no AgentResponse carry none
ContentOf(form) ==
    Content(form, IF form \in {"json", "fenced_json", "xml_tool_call", "function_calls"}
                  THEN UnitAgentResponse ELSE NoResponse)

UnitResponses ==
    TransportFailures
    \cup ContractViolations({Usage(1, 1)})
    \cup {ProviderResponse("ok", "ok", fr, ContentOf(form), NoNative, Usage(2, 1)) :
            fr \in {"stop", "content_filter"}, form \in ContentForms}
    \cup {ProviderResponse("ok", "ok", "tool_calls", ContentOf(form),
                           [kind |-> kind, calls |-> UnitAgentResponse.tool_calls],
                           Usage(2, 1)) :
            form \in {"None", "prose"}, kind \in {"valid", "bad_args"}}

\* tool.run(args) is called
CallsToolRun(tool, args) ==
    /\ Len(unit) < MaxUnitCalls
    /\ unit' = Append(unit, [op |-> "Tool.run",
                             input |-> [tool |-> tool, args |-> args],
                             out |-> ToolRun(tool, args)])
    /\ UNCHANGED <<agent, twin, checkpoint_file, runs, llm_calls, reported_tokens,
                   start, last_response, trace>>

\* llm.call(messages) is called and the provider gives r
CallsLLM(r) ==
    /\ Len(unit) < MaxUnitCalls
    /\ unit' = Append(unit, [op |-> "LLM.call", input |-> r, out |-> LLMCall(r)])
    /\ UNCHANGED <<agent, twin, checkpoint_file, runs, llm_calls, reported_tokens,
                   start, last_response, trace>>

InitUnit ==
    /\ agent = NewAgent(RepositoryLLM, Tools, <<>>, 1)
    /\ twin = NewAgent(RepositoryLLM, Tools, <<>>, 1)
    /\ checkpoint_file = <<>>
    /\ runs = 0
    /\ llm_calls = 0
    /\ reported_tokens = 0
    /\ start = NoStart
    /\ last_response = NoProviderResponse
    /\ unit = <<>>
    /\ trace = NoTrace

NextUnit ==
    \/ \E tool \in UnitTools, args \in UnitArgs : CallsToolRun(tool, args)
    \/ \E r \in UnitResponses : CallsLLM(r)

SpecUnit == InitUnit /\ [][NextUnit]_vars

(***************************************************************************)
(* Vocabulary of the properties.                                           *)
(***************************************************************************)
\* the messages the current run appended after entering its loop
RunIndexes == (Len(start.messages) + 1)..Len(agent.messages)

AssistantIndexes == {i \in RunIndexes : agent.messages[i].role = "assistant"}

\* assistant messages of this run that record a response with is_finished
FinishingIndexes ==
    {i \in AssistantIndexes : agent.messages[i].metadata.is_finished = "True"}

SemanticIndexes == {i \in AssistantIndexes : agent.messages[i].error_code # None}

\* the run began from a reset: its sequence was [system, user] at the loop
FreshRun == Len(start.messages) = 2 /\ start.turn_count = 0

HasReturned == agent.pc = "idle" /\ agent.outcome.kind = "returned"
HasRaised == agent.pc = "idle" /\ agent.outcome.kind = "raised"

\* the run ended where its iteration read self.llm.json_mode of an LLM
\* that has none: before on_turn_start and before the provider call
AttributeRaised == HasRaised /\ agent.outcome.exc = "AttributeError"

\* the iterations the run began: one per provider call, and the one that
\* ended on the missing attribute
TurnsBegun == llm_calls + IF AttributeRaised THEN 1 ELSE 0

\* what the adapter makes of the latest provider response
LastLLM == LLMCall(last_response)

LastIsSemantic ==
    /\ llm_calls > 0
    /\ \/ LastLLM.raised = "JSONDecodeError"
       \/ LastLLM.raised = None /\ LastLLM.error_code # None
       \/ LastLLM.raised = None /\ ~ParsesAsAgentResponse(LastLLM.content)

LastErrorCode ==
    IF LastLLM.raised = None /\ LastLLM.error_code # None
    THEN LastLLM.error_code ELSE "parse_error"

(***************************************************************************)
(* C1  Termination.  In a run started from a reset in which no provider    *)
(* call raises, the first response that parses with is_finished=true ends  *)
(* the run: the loop is never at its head, nor in a later turn, with such  *)
(* a response recorded; and once it is recorded and its turn is over the   *)
(* run has returned SUCCESS after exactly k provider calls with            *)
(* turn_count = k <= max_turns, k being the number of responses recorded   *)
(* (non-finishing ones and semantic errors included).                      *)
(***************************************************************************)
C1_Termination ==
    FreshRun =>
        /\ agent.pc = "loop" => FinishingIndexes = {}
        /\ Cardinality(FinishingIndexes) <= 1
        /\ (FinishingIndexes # {} /\ agent.pc # "tools") =>
              /\ HasReturned
              /\ agent.outcome.status = "success"
              /\ llm_calls = Cardinality(AssistantIndexes)
              /\ agent.turn_count = llm_calls
              /\ agent.outcome.turns = llm_calls
              /\ agent.turn_count <= agent.max_turns
              /\ \A i \in AssistantIndexes : \A f \in FinishingIndexes : i <= f

\* a fresh run that returned SUCCESS at its second call, after a semantic error
C1_Witness ==
    /\ FreshRun /\ HasReturned /\ agent.outcome.status = "success"
    /\ llm_calls = 2 /\ agent.turn_count = 2
    /\ SemanticIndexes # {}

(***************************************************************************)
(* C2  Max turns.  A run of any kind (fresh, continued or resumed) in      *)
(* which no response finishes and no provider call raises ends by          *)
(* returning: it never leaves run() by an exception; and once it has       *)
(* returned it returned MAX_TURNS_REACHED with the '[MAX_TURNS]' marker   *)
(* as value and with turn_count equal to max_turns exactly.                *)
(***************************************************************************)
C2_MaxTurnsExact ==
    /\ HasRaised => agent.outcome.exc = LastLLM.raised
    /\ (HasReturned /\ FinishingIndexes = {}) =>
          /\ agent.outcome.status = "max_turns_reached"
          /\ agent.outcome.value = MaxTurnsMarker
          /\ agent.turn_count = agent.max_turns

\* the tool messages of the whole sequence, and the requests before one
ToolIndexes == {i \in 1..Len(agent.messages) : agent.messages[i].role = "tool"}

RequestsBefore(i) ==
    {<<j, k>> \in (1..(i - 1)) \X (1..MaxToolCalls + 1) :
        /\ agent.messages[j].role = "assistant"
        /\ k <= Len(agent.messages[j].tool_calls)
        /\ agent.messages[j].tool_calls[k].id = agent.messages[i].tool_call_id}

(***************************************************************************)
(* C3  Tool pairing.  Every tool-role message carries a tool_call_id that  *)
(* matches exactly one ToolCall of an earlier assistant message, and no    *)
(* two tool-role messages answer the same id.                              *)
(***************************************************************************)
C3_ToolPairing ==
    /\ \A i \in ToolIndexes : Cardinality(RequestsBefore(i)) = 1
    /\ \A i, j \in ToolIndexes :
          agent.messages[i].tool_call_id = agent.messages[j].tool_call_id => i = j

\* what the observers were told during the step in progress
NewEvents == SubSeq(agent'.events, Len(agent.events) + 1, Len(agent'.events))

\* the step is a provider call of the current run
IsModelCall == llm_calls' = llm_calls + 1

(***************************************************************************)
(* C4  Semantic errors are a recovery channel.  A provider call that       *)
(* yields a content_filter, an empty response or a parse failure neither   *)
(* raises nor returns: the step appends exactly one message, an assistant  *)
(* message with that error code and no tool calls, every observer that     *)
(* implements on_error is told once (even if hooks raise), no tool is      *)
(* executed, no other hook than on_turn_start fires, and the loop is back  *)
(* at its head with the turn counted.  A run that returned                 *)
(* MAX_TURNS_REACHED had its turn budget spent.                            *)
(***************************************************************************)
C4_SemanticRecovery ==
    [][/\ (IsModelCall /\ LastIsSemantic') =>
             /\ agent'.pc = "loop"
             /\ agent'.outcome = agent.outcome
             /\ agent'.turn_count = agent.turn_count + 1
             /\ Len(agent'.messages) = Len(agent.messages) + 1
             /\ SubSeq(agent'.messages, 1, Len(agent.messages)) = agent.messages
             /\ LET m == agent'.messages[Len(agent'.messages)]
                IN  /\ m.role = "assistant"
                    /\ m.error_code = LastErrorCode'
                    /\ m.tool_calls = <<>>
                    /\ m.metadata.is_finished = None
             /\ agent'.tool_results = <<>>
             /\ \A i \in 1..Len(agent.observers) :
                   "on_error" \in agent.observers[i] =>
                       Cardinality({k \in 1..Len(NewEvents) :
                           Told(NewEvents[k], i, "on_error", agent'.turn_count)}) = 1
             /\ \A k \in 1..Len(NewEvents) :
                   NewEvents[k].event \in {"on_turn_start", "on_error"}
       /\ (agent'.outcome.status = "max_turns_reached") =>
             agent'.turn_count >= agent'.max_turns
      ]_vars

\* an empty response in the first turn, with a raising hook: its message is
\* the last one and the loop is at its head with budget left
C4_Witness ==
    /\ agent.pc = "loop" /\ LoopContinues(agent)
    /\ LastIsSemantic /\ LastErrorCode = "empty_response"
    /\ agent.messages[Len(agent.messages)].error_code = "empty_response"
    /\ agent.obs_raised

(***************************************************************************)
(* C5  Fatal and transient provider failures end the run by exception.     *)
(* A provider call that raises AuthError, InvalidModelError,               *)
(* PermissionError, MalformedResponseError or TransientProviderError makes *)
(* run() raise that same exception in the same step: no message is         *)
(* appended, no tool is executed, no token is counted, and the run makes   *)
(* no further provider call.                                               *)
(***************************************************************************)
C5_FatalPropagates ==
    [][/\ (IsModelCall /\ LastLLM'.raised \in FatalErrors) =>
             /\ agent'.pc = "idle"
             /\ agent'.outcome.kind = "raised"
             /\ agent'.outcome.exc = LastLLM'.raised
             /\ agent'.messages = agent.messages
             /\ agent'.tool_results = <<>>
             /\ agent'.tokens_used = agent.tokens_used
             /\ \A k \in 1..Len(NewEvents) : NewEvents[k].event = "on_turn_start"
       /\ HasRaised => (llm_calls' = llm_calls \/ runs' = runs + 1)
      ]_vars

\* a TransientProviderError in the second turn of a run
C5_Witness ==
    /\ HasRaised /\ agent.outcome.exc = "TransientProviderError"
    /\ llm_calls = 2
    /\ AssistantIndexes # {}

(***************************************************************************)
(* C6  Token accumulation.  After a run, tokens_used is its value at the   *)
(* start of the run plus the input+output tokens the provider reported     *)
(* over all the calls of the run, those that became a semantic error       *)
(* included; a run started from a reset starts from 0.                     *)
(***************************************************************************)
C6_TokenAccumulation ==
    /\ FreshRun => start.tokens_used = 0
    /\ HasReturned => agent.tokens_used = start.tokens_used + reported_tokens

\* the assistant messages of the whole sequence and their tool calls
Assistants == {j \in 1..Len(agent.messages) : agent.messages[j].role = "assistant"}

Calls(j) == agent.messages[j].tool_calls

LastAssistant(j) == j \in Assistants /\ \A i \in Assistants : i <= j

\* the turn of assistant message j is at its tool calls
InProgress(j) == agent.pc = "tools" /\ LastAssistant(j)

\* the calls of assistant message j executed so far
Answered(j) == IF InProgress(j) THEN agent.idx - 1 ELSE Len(Calls(j))

\* the turn that appended assistant message j, in a run started from a reset
TurnOf(j) == Cardinality({i \in Assistants : i <= j})

\* times the observer was told event for a turn
CountEvents(event, turn) ==
    Cardinality({k \in 1..Len(agent.events) :
                    Told(agent.events[k], 1, event, turn)})

\* the call fails: unknown or ambiguous tool, invalid arguments, dependency
\* mismatch or an exception inside the tool
CallFailed(tc) == ExecuteSingleTool(agent.tools, tc).status # "success"

FailedCalls(j) == {k \in 1..Answered(j) : CallFailed(Calls(j)[k])}

(***************************************************************************)
(* C7  Request order.  The tool calls c1..cn of a turn's response are      *)
(* answered in that order: the assistant message is followed by exactly    *)
(* the tool-role messages of the calls executed so far (all n once the     *)
(* turn is over, so before the next provider call), the i-th with          *)
(* tool_call_id = ci.id and name = ci.tool; every tool-role message is one *)
(* of these; and on_tool_execution was notified once per executed call.    *)
(***************************************************************************)
C7_RequestOrder ==
    /\ \A j \in Assistants :
          /\ j + Answered(j) <= Len(agent.messages)
          /\ \A k \in 1..Answered(j) :
                /\ agent.messages[j + k].role = "tool"
                /\ agent.messages[j + k].tool_call_id = Calls(j)[k].id
                /\ agent.messages[j + k].name = Calls(j)[k].tool
          /\ j + Answered(j) < Len(agent.messages) =>
                agent.messages[j + Answered(j) + 1].role # "tool"
          /\ CountEvents("on_tool_execution", TurnOf(j)) = Answered(j)
    /\ \A i \in ToolIndexes : \E j \in Assistants : j < i /\ i - j <= Answered(j)
    /\ agent.pc = "tools" =>
          /\ agent.idx \in 1..Len(agent.cur.tool_calls)
          /\ \A k \in 1..Len(agent.tool_results) :
                agent.tool_results[k].tool_call_id = agent.cur.tool_calls[k].id

\* a finished turn of two calls to different tools under different ids
C7_Witness ==
    \E j \in Assistants :
        /\ Len(Calls(j)) = 2 /\ ~InProgress(j)
        /\ Calls(j)[1].id # Calls(j)[2].id
        /\ Calls(j)[1].tool # Calls(j)[2].tool
        /\ agent.messages[j + 2].tool_call_id = Calls(j)[2].id

\* on_error notifications of the turn of assistant message j that are not
\* about a tool: the one that goes with MAX_TURNS_REACHED
BudgetErrors(j) ==
    IF HasReturned /\ agent.outcome.status = "max_turns_reached"
       /\ TurnOf(j) = agent.turn_count
    THEN 1 ELSE 0

\* assistant message j asked for a call that failed, and its turn is over
FailedTurnOver(j) == FailedCalls(j) # {} /\ ~InProgress(j)

(***************************************************************************)
(* C8 as stated.  After a turn in which a tool call failed the run has not *)
(* ended and the next provider call is made: once such a turn is over and  *)
(* nothing follows it, the loop is at its head, or has left it because the *)
(* turn budget is spent.                                                   *)
(***************************************************************************)
C8_NextCallMade ==
    \A j \in Assistants :
        (FailedTurnOver(j) /\ LastAssistant(j)) =>
            \/ agent.pc = "loop"
            \/ HasReturned /\ agent.outcome.status = "max_turns_reached"

(***************************************************************************)
(* C8 amended.  A failed tool execution (invalid arguments, dependency     *)
(* mismatch, exception inside the tool, unknown tool name) never raises    *)
(* out of run(): its tool-role message is appended, the remaining calls of *)
(* the turn are still executed, on_error is notified once per failed call  *)
(* when the calls of the turn are done, and the turn ends as any other     *)
(* does: the next provider call is due unless the response of that turn    *)
(* had is_finished=true (run() returns SUCCESS) or the turn budget is      *)
(* spent (run() returns MAX_TURNS_REACHED).                                *)
(***************************************************************************)
C8_FailureContinues ==
    /\ agent.outcome.kind = "raised" => (AttributeRaised /\ Assistants = {})
    /\ \A j \in Assistants :
          /\ \A k \in FailedCalls(j) :
                /\ j + k <= Len(agent.messages)
                /\ agent.messages[j + k].role = "tool"
                /\ agent.messages[j + k].tool_call_id = Calls(j)[k].id
                /\ agent.messages[j + k].content
                      \in {"Tool not found", "Invalid arguments for tool",
                           "Tool execution error", "dependency mismatch"}
          /\ InProgress(j) => CountEvents("on_error", TurnOf(j)) = 0
          /\ FailedTurnOver(j) =>
                /\ \A k \in 1..Len(Calls(j)) :
                      j + k <= Len(agent.messages) /\ agent.messages[j + k].role = "tool"
                /\ CountEvents("on_error", TurnOf(j))
                      = Cardinality(FailedCalls(j)) + BudgetErrors(j)
          /\ (FailedTurnOver(j) /\ LastAssistant(j)) =>
                \/ /\ agent.pc = "loop" /\ agent.outcome.kind = "none"
                   /\ agent.messages[j].metadata.is_finished # "True"
                \/ /\ HasReturned /\ agent.outcome.status = "success"
                   /\ agent.messages[j].metadata.is_finished = "True"
                \/ /\ HasReturned /\ agent.outcome.status = "max_turns_reached"
                   /\ agent.messages[j].metadata.is_finished # "True"
                   /\ ~LoopContinues(agent)

\* a turn whose first call failed and whose second call was still executed,
\* followed by another provider call
C8_Witness ==
    \E j \in Assistants :
        /\ Len(Calls(j)) = 2 /\ 1 \in FailedCalls(j) /\ ~InProgress(j)
        /\ agent.messages[j + 2].role = "tool"
        /\ CountEvents("on_error", TurnOf(j)) >= 1
        /\ \E i \in Assistants : i > j

(***************************************************************************)
(* C9  Failed executions carry an error code.  Every tool-role message     *)
(* appended for a failed tool execution has error_code validation_error or *)
(* execution_error.                                                        *)
(***************************************************************************)
C9_FailedCarryCode ==
    \A j \in Assistants : \A k \in FailedCalls(j) :
        agent.messages[j + k].error_code \in {"validation_error", "execution_error"}

\* what run() leaves for its caller and for the next run
Core(a) ==
    [messages |-> a.messages, turn_count |-> a.turn_count,
     tokens_used |-> a.tokens_used, pc |-> a.pc, outcome |-> a.outcome]

(***************************************************************************)
(* C10  Observer non-interference.  Whatever hooks raise, at every point   *)
(* of every run the agent has the same message sequence, turn_count,       *)
(* tokens_used and outcome (the Result returned or the exception raised)   *)
(* as the agent built with no observers and given the same calls, provider *)
(* responses and tool results; and no observer exception leaves run().     *)
(***************************************************************************)
C10_NonInterference ==
    /\ Core(agent) = Core(twin)
    /\ agent.outcome.exc # "ObserverException"
    /\ ~agent.escaped

\* hooks raised during a run that executed a tool and returned SUCCESS
C10_Witness ==
    /\ agent.obs_raised /\ HasReturned /\ agent.outcome.status = "success"
    /\ ToolIndexes # {}
    /\ Len(agent.events) > 0 /\ twin.events = <<>>

\* the checkpoint file holds the state of agent a
FileHolds(a) ==
    /\ Len(checkpoint_file') = 1
    /\ LET ck == checkpoint_file'[1]
       IN  /\ ck.turn_count = a.turn_count
           /\ ck.tokens_used = a.tokens_used
           /\ Len(ck.messages) = Len(a.messages)
           /\ \A i \in 1..Len(a.messages) :
                 ck.messages[i] = MessageToJson(a.messages[i])

(***************************************************************************)
(* C11  Crash checkpoint.  When a run given auto_checkpoint ends by an     *)
(* exception raised in turn k, the step that raises leaves in the file the *)
(* messages, turn_count (k turns begun) and tokens_used the agent has at   *)
(* the failure, which include every message of the turns before k, and the *)
(* exception that leaves run() is the one the provider call raised.        *)
(***************************************************************************)
C11_CrashCheckpoint ==
    [][(agent.pc # "idle" /\ agent.auto_checkpoint /\ agent'.outcome.kind = "raised") =>
          /\ FileHolds(agent')
          /\ agent'.messages = agent.messages
          /\ agent'.turn_count = start.turn_count + TurnsBegun'
          /\ agent'.outcome.exc = IF HasJsonMode(agent.llm) THEN LastLLM'.raised
                                  ELSE "AttributeError"
          /\ agent'.pc = "idle"
      ]_vars

\* a run raised in its second turn and the file holds the first turn
C11_Witness ==
    /\ HasRaised /\ start.auto_checkpoint /\ llm_calls = 2
    /\ checkpoint_file # <<>>
    /\ checkpoint_file[1].turn_count = 2
    /\ Len(checkpoint_file[1].messages) = 3
    /\ checkpoint_file[1].messages[3].error_code = "content_filter"

(***************************************************************************)
(* C12  auto_checkpoint leaves the normal path untouched.  At every point  *)
(* the agent, whether its runs were given auto_checkpoint or not, has the  *)
(* same messages, turn_count, tokens_used and outcome as the agent given   *)
(* the same runs without auto_checkpoint; and a step of run() writes the   *)
(* file only when it raises out of the loop of a run given                 *)
(* auto_checkpoint: never when run() returns SUCCESS or MAX_TURNS_REACHED, *)
(* and never on an exception of a run without auto_checkpoint.             *)
(***************************************************************************)
C12_AutoCheckpointInert ==
    /\ [](Core(agent) = Core(twin))
    /\ [][(agent' # agent /\ checkpoint_file' # checkpoint_file) =>
             /\ agent.auto_checkpoint
             /\ agent.pc # "idle"
             /\ agent'.outcome.kind = "raised"
         ]_vars

\* a run given auto_checkpoint returned MAX_TURNS_REACHED and there is no file
C12_Witness ==
    /\ HasReturned /\ start.auto_checkpoint /\ ~twin.auto_checkpoint
    /\ agent.outcome.status = "max_turns_reached"
    /\ llm_calls > 0
    /\ checkpoint_file = <<>>

\* the step is a call of run() that loads the file
IsResume == runs' = runs + 1 /\ start'.checkpoint /\ checkpoint_file # <<>>

\* the messages the file holds, as the agent has them after the load
LoadedMessages ==
    [i \in 1..Len(checkpoint_file[1].messages) |->
        MessageFromJson(checkpoint_file[1].messages[i])]

\* the run in progress, or the last one, resumed from a file
Resumed == start.checkpoint /\ agent.outcome.exc # "FileNotFoundError"

\* the sequence the run entered its loop with is still there, no system
\* message came after it, and the counters did not go down
ContinuesFromStart ==
    /\ Len(agent.messages) >= Len(start.messages)
    /\ SubSeq(agent.messages, 1, Len(start.messages)) = start.messages
    /\ \A i \in RunIndexes : agent.messages[i].role # "system"
    /\ agent.turn_count >= start.turn_count
    /\ agent.tokens_used >= start.tokens_used

(***************************************************************************)
(* C14 as stated.  run(input, checkpoint=p) enters its loop with the       *)
(* messages of p followed by the user message only, and with the           *)
(* turn_count and tokens_used of p, whatever reset is and whatever p       *)
(* holds; for the rest of the run that sequence stays an unchanged prefix, *)
(* no system message is appended and the counters stay at least the        *)
(* loaded values.                                                          *)
(***************************************************************************)
C14_ResumeAlways ==
    /\ [](Resumed => ContinuesFromStart)
    /\ [][IsResume =>
             /\ \E input \in Inputs :
                   agent'.messages = Append(LoadedMessages, Message("user", input))
             /\ agent'.turn_count = checkpoint_file[1].turn_count
             /\ agent'.tokens_used = checkpoint_file[1].tokens_used
         ]_vars

(***************************************************************************)
(* C14 amended.  The same, except when p holds no messages: then the run   *)
(* starts as a fresh one, with a system message before the user message    *)
(* and turn_count and tokens_used restarted from 0.                        *)
(***************************************************************************)
C14_ResumeUnlessEmpty ==
    /\ [](Resumed => ContinuesFromStart)
    /\ [][IsResume =>
             IF checkpoint_file[1].messages # <<>>
             THEN /\ \E input \in Inputs :
                        agent'.messages = Append(LoadedMessages, Message("user", input))
                  /\ agent'.turn_count = checkpoint_file[1].turn_count
                  /\ agent'.tokens_used = checkpoint_file[1].tokens_used
             ELSE /\ \E input \in Inputs :
                        agent'.messages = <<Message("system", SystemPrompt),
                                            Message("user", input)>>
                  /\ agent'.turn_count = 0
                  /\ agent'.tokens_used = 0
         ]_vars

\* a run given reset=True and a checkpoint of an earlier run went on from it
C14_Witness ==
    /\ Resumed /\ start.reset /\ HasReturned
    /\ Len(start.messages) > 3 /\ start.turn_count > 0 /\ start.tokens_used > 0
    /\ llm_calls > 0
    /\ Cardinality({i \in 1..Len(agent.messages) : agent.messages[i].role = "system"}) = 1

\* the messages of a role in the whole sequence
WithRole(role) == {i \in 1..Len(agent.messages) : agent.messages[i].role = role}

\* the step is a call of run() without a checkpoint
IsPlainRun == runs' = runs + 1 /\ ~start'.checkpoint

\* a run without a checkpoint is in progress or over
PlainRun == runs > 0 /\ ~start.checkpoint

(***************************************************************************)
(* C15  Reset semantics.  run(reset=True) enters its loop with exactly     *)
(* [system, user(input)] and both counters at 0, and from then on the      *)
(* sequence begins with these two, holds one system and one user message,  *)
(* turn_count is the number of provider calls of this run and tokens_used  *)
(* holds nothing but tokens reported to this run.  run(reset=False) on an  *)
(* agent with prior messages enters its loop with the prior sequence       *)
(* followed by one user message and with the prior counters; from then on  *)
(* that sequence stays an unchanged prefix, no system or user message is   *)
(* appended, and the counters go on from the prior values.                 *)
(***************************************************************************)
C15_ResetSemantics ==
    /\ []((PlainRun /\ start.reset) =>
             /\ \E input \in Inputs :
                   start.messages = <<Message("system", SystemPrompt),
                                      Message("user", input)>>
             /\ start.turn_count = 0 /\ start.tokens_used = 0
             /\ SubSeq(agent.messages, 1, 2) = start.messages
             /\ WithRole("system") = {1} /\ WithRole("user") = {2}
             /\ agent.turn_count = TurnsBegun
             /\ agent.tokens_used <= reported_tokens)
    /\ []((PlainRun /\ ~start.reset) =>
             /\ ContinuesFromStart
             /\ \A i \in RunIndexes : agent.messages[i].role # "user"
             /\ WithRole("system") = {1}
             /\ agent.turn_count = start.turn_count + TurnsBegun
             /\ agent.tokens_used <= start.tokens_used + reported_tokens)
    /\ [][(IsPlainRun /\ ~start'.reset /\ agent.messages # <<>>) =>
             /\ \E input \in Inputs :
                   agent'.messages = Append(agent.messages, Message("user", input))
             /\ agent'.turn_count = agent.turn_count
             /\ agent'.tokens_used = agent.tokens_used
         ]_vars

\* a second run, from a reset, of an agent whose first run used tokens
C15_Witness ==
    /\ runs = 2 /\ PlainRun /\ start.reset /\ HasReturned
    /\ agent.tokens_used > 0 /\ agent.turn_count = 2
    /\ Len(agent.messages) > 3

(***************************************************************************)
(* C16  Final answer value.  A run that returned SUCCESS returned as value *)
(* the result text of its finishing response, or the empty string when     *)
(* that result is null; the value is never null.                           *)
(***************************************************************************)
C16_FinalValue ==
    (HasReturned /\ agent.outcome.status = "success") =>
        /\ agent.outcome.value # None
        /\ agent.outcome.value
              = (IF agent.cur.result = None THEN "" ELSE agent.cur.result)

(***************************************************************************)
(* C17  Recorded assistant turn.  A provider call whose outcome is not a   *)
(* semantic error appends an assistant message whose content is the        *)
(* normalized text the adapter returned, whose tool_calls are the parsed   *)
(* calls and whose metadata holds the parsed reasoning and is_finished.    *)
(***************************************************************************)
C17_RecordedTurn ==
    [][(IsModelCall /\ LastLLM'.raised = None /\ ~LastIsSemantic') =>
          LET m == agent'.messages[Len(agent.messages) + 1]
              parsed == LastLLM'.content.resp
          IN  /\ m.role = "assistant"
              /\ m.error_code = None
              /\ m.content = LastLLM'.text
              /\ m.tool_calls = parsed.tool_calls
              /\ m.metadata.reasoning = parsed.reasoning
              /\ m.metadata.is_finished = PyBool(parsed.is_finished)
      ]_vars

\* the direct calls of an operation
UnitCalls(op) == {i \in 1..Len(unit) : unit[i].op = op}

\* the error code the wrapper owes a call: validation first, then execution
ExpectedToolCode(tool, args) ==
    IF args = "bad" THEN "validation_error"
    ELSE IF tool.behaviour \in {"type_error", "raises", "raises_validation_error"}
    THEN "execution_error"
    ELSE None

(***************************************************************************)
(* C18  Tool.run is total.  Every call of Tool.run returns, and returns a  *)
(* tool-role message whose error_code is validation_error when the         *)
(* arguments fail the schema, execution_error when execute() fails         *)
(* (dependency mismatch or any other exception), and null exactly when     *)
(* both succeed, the content then being the string form of what execute()  *)
(* returned.                                                               *)
(***************************************************************************)
C18_ToolRunTotal ==
    \A i \in UnitCalls("Tool.run") :
        LET tool == unit[i].input.tool
            args == unit[i].input.args
            out == unit[i].out
        IN  /\ out.raised = None
            /\ out.message.role = "tool"
            /\ out.message.name = tool.name
            /\ out.message.error_code = ExpectedToolCode(tool, args)
            /\ out.message.error_code = None =>
                  out.message.content
                      = (IF tool.behaviour = "returns_empty" THEN "" ELSE "value")

(***************************************************************************)
(* C19  Two channels.  Every call of LLM.call, for every classified        *)
(* transport failure and every provider response, either returns a        *)
(* Message or raises one of AuthError, InvalidModelError, PermissionError, *)
(* MalformedResponseError, TransientProviderError: a transport failure and *)
(* a response of invalid structure raise, no other exception type leaves   *)
(* call().                                                                 *)
(***************************************************************************)
C19_TwoChannels ==
    \A i \in UnitCalls("LLM.call") :
        LET r == unit[i].input
            out == unit[i].out
        IN  /\ out.raised \in FatalErrors \cup {None}
            /\ r.transport # "ok" => out.raised = ClassifyTransportError(r.transport)
            /\ (r.transport = "ok" /\ r.shape # "ok") =>
                  out.raised = "MalformedResponseError"

\* the content is null or blank once native tool calls are converted
BlankAfterConversion(r) ==
    /\ r.content.form \in {"None", "blank"}
    /\ ~(r.finish_reason = "tool_calls" /\ r.native.kind # "none")

(***************************************************************************)
(* C20  Classification precedence.  For a response of valid structure,     *)
(* LLM.call returns (never raises) a Message carrying the reported input   *)
(* and output tokens: tagged content_filter when the finish reason is      *)
(* content_filter, whatever the content; otherwise tagged empty_response   *)
(* when the content is null or blank after native tool-call conversion;    *)
(* otherwise untagged, with the normalized content.                        *)
(***************************************************************************)
C20_Precedence ==
    \A i \in UnitCalls("LLM.call") :
        LET r == unit[i].input
            out == unit[i].out
        IN  (r.transport = "ok" /\ r.shape = "ok") =>
                /\ out.raised = None
                /\ out.tokens_in = r.usage.prompt_tokens
                /\ out.tokens_out = r.usage.completion_tokens
                /\ out.error_code
                      = (IF r.finish_reason = "content_filter" THEN "content_filter"
                         ELSE IF BlankAfterConversion(r) THEN "empty_response"
                         ELSE None)
                /\ out.error_code = None =>
                      out.content.form \in {"json", "wrong_schema_json", "prose"}

(***************************************************************************)
(* The file navigator: its mock filesystem, its two tools as the traces    *)
(* record them, and the ground truth the validators are given.             *)
(*                                                                         *)
(* A path "framework/tests" is the sequence <<"framework", "tests">> of    *)
(* its parts, "" is <<>>; a tool result is a record: a listing with its    *)
(* lines, the decimal text of an integer, or other text.                   *)
(***************************************************************************)
File(size) == [dir |-> FALSE, size |-> size]

Dir(items) == [dir |-> TRUE, items |-> items]

\* a filesystem definition: three test files below framework/tests, one
\* other file whose size is the sum of two of them, a cache directory
FileSystem ==
    "framework" :> Dir(
        "__pycache__" :> Dir("a.pyc" :> File(5))
        @@ "a.py" :> File(3)
        @@ "tests" :> Dir("test_a.py" :> File(1) @@ "test_b.py" :> File(2)
                          @@ "test_c.py" :> File(4)))

\* the same with a second subdirectory beside tests
WideFileSystem ==
    "framework" :> Dir(
        "__pycache__" :> Dir("a.pyc" :> File(5))
        @@ "docs" :> Dir("guide.md" :> File(6))
        @@ "tests" :> Dir("test_a.py" :> File(1) @@ "test_b.py" :> File(2)
                          @@ "test_c.py" :> File(4)))

\* the names of the two filesystems as sorted() orders them
SortedNames ==
    <<"__pycache__", "a.py", "a.pyc", "docs", "framework", "guide.md",
      "test_a.py", "test_b.py", "test_c.py", "tests">>

StartsWith(s, prefix) ==
    Len(s) >= Len(prefix) /\ SubSeq(s, 1, Len(prefix)) = prefix

EndsWith(s, suffix) ==
    Len(s) >= Len(suffix) /\ SubSeq(s, Len(s) - Len(suffix) + 1, Len(s)) = suffix

\* tool results
Text(kind) == [form |-> kind]

Number(n) == [form |-> "int", n |-> n]

HeaderLine == [kind |-> "header"]

DirLine(name, n) == [kind |-> "directory", name |-> name, items |-> n]

FileLine(name, size) == [kind |-> "file", name |-> name, size |-> size]

Listing(lines) == [form |-> "listing", lines |-> lines]

\* what the walk gives for a path that does not exist
Missing == [dir |-> FALSE, missing |-> TRUE]

RECURSIVE Resolve(_, _)
\* MockListDirectoryTool.execute walking the parts of the path
Resolve(current, parts) ==
    IF parts = <<>> THEN current
    ELSE IF current.dir /\ Head(parts) \in DOMAIN current.items
         THEN Resolve(current.items[Head(parts)], Tail(parts))
         ELSE Missing

LineOf(items, name) ==
    IF items[name].dir
    THEN DirLine(name, Cardinality(DOMAIN items[name].items))
    ELSE FileLine(name, items[name].size)

RECURSIVE ListingLines(_, _)
ListingLines(items, names) ==
    IF names = <<>> THEN <<>>
    ELSE IF Head(names) \in DOMAIN items
         THEN <<LineOf(items, Head(names))>> \o ListingLines(items, Tail(names))
         ELSE ListingLines(items, Tail(names))

\* MockListDirectoryTool.execute
MockListDirectory(filesystem, path) ==
    LET current == Resolve(Dir(filesystem), path)
    IN  IF current = Missing THEN Text("not_found")
        ELSE IF ~current.dir THEN Text("not_a_directory")
        ELSE Listing(<<HeaderLine>> \o ListingLines(current.items, SortedNames))

\* CalculatorTool.execute on an addition, as the tool message records it
Calculator(args) == Number(args.x + args.y)

RECURSIVE ExtractAllFileSizes(_, _)
\* expected_outputs.extract_all_file_sizes: the (path, size) pairs of all files
ExtractAllFileSizes(items, path) ==
    UNION {IF items[name].dir
           THEN ExtractAllFileSizes(items[name].items, Append(path, name))
           ELSE {<<Append(path, name), items[name].size>>} : name \in DOMAIN items}

BaseName(path) == path[Len(path)]

IsTestFile(name) == StartsWith(name, "test_") /\ EndsWith(name, ".py")

ExtractTestFiles(filesystem) ==
    {f \in ExtractAllFileSizes(filesystem, <<>>) : IsTestFile(BaseName(f[1]))}

\* expected_outputs.compute_required_paths: every proper prefix of a test
\* file's path
ComputeRequiredPaths(test_files) ==
    UNION {{SubSeq(f[1], 1, i) : i \in 1..(Len(f[1]) - 1)} : f \in test_files}

RECURSIVE SumSizes(_)
SumSizes(files) ==
    IF files = {} THEN 0
    ELSE LET f == CHOOSE g \in files : TRUE IN f[2] + SumSizes(files \ {f})

\* expected_outputs.compute_expected_answer
ComputeExpectedAnswer(test_files) == SumSizes(test_files)

GetGroundTruth(filesystem) ==
    LET test_files == ExtractTestFiles(filesystem)
    IN  [test_file_sizes |-> {f[2] : f \in test_files},
         required_paths |-> ComputeRequiredPaths(test_files),
         expected_answer |-> ComputeExpectedAnswer(test_files),
         num_test_files |-> Cardinality(test_files)]

(***************************************************************************)
(* The state-machine trace validator (file_navigator/eval/validator.py).   *)
(* The numeric arguments of the recorded calculator calls are integers.    *)
(***************************************************************************)
\* ToolCallValidator.__init__
ToolCallValidator(filesystem, initial_path) ==
    [required_calls |-> <<<<"mocklistdirectory", initial_path>>>>,
     valid_values |-> {},
     test_file_sizes_seen |-> {},
     violations |-> <<>>,
     warnings |-> <<>>,
     tool_call_count |-> 0,
     calculator_call_count |-> 0,
     listdir_call_count |-> 0]

InSeq(x, seq) == \E i \in 1..Len(seq) : seq[i] = x

\* list.remove: the first occurrence goes
RemoveFirst(seq, x) ==
    LET i == CHOOSE k \in 1..Len(seq) :
                 seq[k] = x /\ \A j \in 1..(k - 1) : seq[j] # x
    IN  SubSeq(seq, 1, i - 1) \o SubSeq(seq, i + 1, Len(seq))

\* args.get("path", "")
PathOf(args) == IF "path" \in DOMAIN args THEN args.path ELSE <<>>

\* the check that looks at the head of required_calls only
CheckOffHeadOnly(v, call_signature, turn) ==
    IF v.required_calls # <<>> /\ Head(v.required_calls) = call_signature
    THEN [v EXCEPT !.required_calls = Tail(@)]
    ELSE [v EXCEPT !.warnings =
              Append(@, [type |-> "extra_exploration",
                         path |-> call_signature[2], turn |-> turn])]

\* if call_signature in self.required_calls: remove it; else: warn
CheckOff(v, call_signature, turn) ==
    IF InSeq(call_signature, v.required_calls)
    THEN [v EXCEPT !.required_calls = RemoveFirst(@, call_signature)]
    ELSE [v EXCEPT !.warnings =
              Append(@, [type |-> "extra_exploration",
                         path |-> call_signature[2], turn |-> turn])]

\* ToolCallValidator._validate_listdir_call
ValidateListdirCall(v, tool_call, turn) ==
    CheckOff([v EXCEPT !.listdir_call_count = @ + 1],
             <<"mocklistdirectory", PathOf(tool_call.args)>>, turn)

\* the first of x, y that is present and outside valid_values, or None
FirstInvalidArg(v, args) ==
    IF "x" \in DOMAIN args /\ args.x \notin v.valid_values THEN "x"
    ELSE IF "y" \in DOMAIN args /\ args.y \notin v.valid_values THEN "y"
    ELSE None

\* ToolCallValidator._validate_calculator_call
ValidateCalculatorCall(v, tool_call, turn) ==
    LET counted == [v EXCEPT !.calculator_call_count = @ + 1]
        bad == FirstInvalidArg(v, tool_call.args)
    IN  IF bad = None THEN counted
        ELSE [counted EXCEPT !.violations =
                  Append(@, [type |-> "invalid_calculator_arg", arg |-> bad,
                             value |-> tool_call.args[bad], turn |-> turn])]

\* ToolCallValidator.validate_tool_call
ValidateToolCall(v, tool_call, turn) ==
    LET counted == [v EXCEPT !.tool_call_count = @ + 1]
    IN  IF tool_call.tool = "mocklistdirectory"
        THEN ValidateListdirCall(counted, tool_call, turn)
        ELSE IF tool_call.tool = "calculator"
        THEN ValidateCalculatorCall(counted, tool_call, turn)
        ELSE [counted EXCEPT !.violations =
                  Append(@, [type |-> "unknown_tool", tool |-> tool_call.tool,
                             turn |-> turn])]

\* result.split("\n"): only a listing has lines the patterns can match
LinesOf(result) == IF result.form = "listing" THEN result.lines ELSE <<>>

RECURSIVE AddRequired(_, _, _)
\* the subdirectory loop of _process_listdir_result
AddRequired(required_calls, base_path, lines) ==
    IF lines = <<>> THEN required_calls
    ELSE LET line == Head(lines)
             call_sig == <<"mocklistdirectory", Append(base_path, line.name)>>
         IN  IF line.kind = "directory" /\ line.name # "__pycache__"
                /\ ~InSeq(call_sig, required_calls)
             THEN AddRequired(Append(required_calls, call_sig), base_path,
                              Tail(lines))
             ELSE AddRequired(required_calls, base_path, Tail(lines))

FileSizes(lines) ==
    {lines[i].size : i \in {k \in 1..Len(lines) : lines[k].kind = "file"}}

TestFileSizes(lines) ==
    {lines[i].size : i \in {k \in 1..Len(lines) :
        lines[k].kind = "file" /\ IsTestFile(lines[k].name)}}

\* ToolCallValidator._process_listdir_result
ProcessListdirResult(v, tool_call, result) ==
    [v EXCEPT
        !.required_calls = AddRequired(@, PathOf(tool_call.args), LinesOf(result)),
        !.valid_values = @ \cup FileSizes(LinesOf(result)),
        !.test_file_sizes_seen = @ \cup TestFileSizes(LinesOf(result))]

\* ToolCallValidator._process_calculator_result: int() fails on other text
ProcessCalculatorResult(v, result) ==
    IF result.form = "int" THEN [v EXCEPT !.valid_values = @ \cup {result.n}]
    ELSE v

\* ToolCallValidator.process_tool_result
ProcessToolResult(v, tool_call, result_msg) ==
    IF tool_call.tool = "mocklistdirectory"
    THEN ProcessListdirResult(v, tool_call, result_msg.content)
    ELSE IF tool_call.tool = "calculator"
    THEN ProcessCalculatorResult(v, result_msg.content)
    ELSE v

\* the first tool call of the message with this id, in a sequence of 0 or 1
FirstWithId(tool_calls, id) ==
    LET hits == {k \in 1..Len(tool_calls) : tool_calls[k].id = id}
    IN  IF hits = {} THEN <<>>
        ELSE <<tool_calls[CHOOSE k \in hits : \A h \in hits : k <= h]>>

RECURSIVE CallsAnswered(_, _, _)
\* the backward search of validate_trace from message j down: one call per
\* earlier message that holds the id (the break leaves the inner loop only)
CallsAnswered(messages, j, id) ==
    IF j = 0 THEN <<>>
    ELSE FirstWithId(messages[j].tool_calls, id) \o CallsAnswered(messages, j - 1, id)

RECURSIVE ValidateCalls(_, _, _)
ValidateCalls(v, tool_calls, turn) ==
    IF tool_calls = <<>> THEN v
    ELSE ValidateCalls(ValidateToolCall(v, Head(tool_calls), turn),
                       Tail(tool_calls), turn)

RECURSIVE ProcessResults(_, _, _)
ProcessResults(v, tool_calls, msg) ==
    IF tool_calls = <<>> THEN v
    ELSE ProcessResults(ProcessToolResult(v, Head(tool_calls), msg),
                        Tail(tool_calls), msg)

\* one message of the chronological scan; s is [validator, turn]
ScanMessage(s, messages, i) ==
    LET msg == messages[i]
    IN  IF msg.role = "assistant"
        THEN [validator |-> ValidateCalls(s.validator, msg.tool_calls, s.turn + 1),
              turn |-> s.turn + 1]
        ELSE IF msg.role = "tool" /\ msg.tool_call_id \notin {None, ""}
        THEN [s EXCEPT !.validator =
                  ProcessResults(@, CallsAnswered(messages, i - 1, msg.tool_call_id),
                                 msg)]
        ELSE s

RECURSIVE Scan(_, _, _)
\* the scan after the first n messages
Scan(messages, filesystem, n) ==
    IF n = 0
    THEN [validator |-> ToolCallValidator(filesystem, <<"framework">>), turn |-> 0]
    ELSE ScanMessage(Scan(messages, filesystem, n - 1), messages, n)

\* A returned value is None, "", or text, given with the numbers that
\* \d[\d,]* finds in str(value) (numbers) and the numbers that
\* \b\d[\d,]*\b finds there (bounded), in order, commas dropped.
NoneValue == [form |-> "None", numbers |-> <<>>, bounded |-> <<>>]

EmptyValue == [form |-> "empty", numbers |-> <<>>, bounded |-> <<>>]

\* text whose numbers stand between word boundaries: "7", "3 files, total 7"
Value(numbers) == [form |-> "text", numbers |-> numbers, bounded |-> numbers]

\* text whose digits touch a letter or an underscore: "7bytes", "total7"
GluedValue(numbers) == [form |-> "text", numbers |-> numbers, bounded |-> <<>>]

Truthy(value) == value.form \notin {"None", "empty"}

\* run() has not returned: the validators are given final_result=None
NoResult == Result(NoneValue, None, None)

\* the extraction of check_final_answer: the first number in a sequence of
\* one, or <<>> for None
FinalAnswer(final_result) ==
    IF final_result.status # None /\ Truthy(final_result.value)
       /\ final_result.value.numbers # <<>>
    THEN <<Head(final_result.value.numbers)>>
    ELSE <<>>

\* a final-answer check that only compares with the expected answer
CheckFinalAnswerUngrounded(v, final_result, expected_answer) ==
    LET final_answer == FinalAnswer(final_result)
        wrong == IF final_answer # <<expected_answer>>
                 THEN <<[type |-> "wrong_answer"]>> ELSE <<>>
    IN  [passed |-> wrong = <<>>, issues |-> wrong, final_answer |-> final_answer]

\* ToolCallValidator.check_final_answer
CheckFinalAnswer(v, final_result, expected_answer) ==
    LET final_answer == FinalAnswer(final_result)
        wrong == IF final_answer # <<expected_answer>>
                 THEN <<[type |-> "wrong_answer"]>> ELSE <<>>
        ungrounded == IF final_answer # <<>> /\ final_answer[1] \notin v.valid_values
                      THEN <<[type |-> "answer_not_from_tool"]>> ELSE <<>>
    IN  [passed |-> wrong \o ungrounded = <<>>,
         issues |-> wrong \o ungrounded,
         final_answer |-> final_answer]

\* ToolCallValidator.check_completeness
CheckCompleteness(v, expected_test_file_sizes) ==
    LET incomplete == IF v.required_calls # <<>>
                      THEN <<[type |-> "incomplete_exploration"]>> ELSE <<>>
        missing == IF expected_test_file_sizes \ v.test_file_sizes_seen # {}
                   THEN <<[type |-> "missing_test_files"]>> ELSE <<>>
        extra == IF v.test_file_sizes_seen \ expected_test_file_sizes # {}
                 THEN <<[type |-> "extra_files_included"]>> ELSE <<>>
    IN  [passed |-> incomplete \o missing \o extra = <<>>,
         issues |-> incomplete \o missing \o extra]

\* ToolCallValidator.get_summary
GetSummary(v) == [passed |-> Len(v.violations) = 0, violations |-> v.violations]

\* eval/validator.py validate_trace
ValidateTraceSM(messages, filesystem, expected_answer, expected_sizes, final_result) ==
    LET v == Scan(messages, filesystem, Len(messages)).validator
        answer == CheckFinalAnswer(v, final_result, expected_answer)
        completeness == CheckCompleteness(v, expected_sizes)
        summary == GetSummary(v)
    IN  [passed |-> summary.passed /\ answer.passed /\ completeness.passed,
         answer |-> answer,
         completeness |-> completeness,
         trace_validation |-> summary,
         validator |-> v]

(***************************************************************************)
(* The forensic validators (file_navigator/validators.py).                 *)
(***************************************************************************)
NoToolResult == [form |-> "None"]

RECURSIVE ResultOf(_, _, _)
\* the forward search of extract_tool_calls from message j: the content of
\* the first tool message with the id, unless an assistant message comes first
ResultOf(messages, j, call_id) ==
    IF j > Len(messages) THEN NoToolResult
    ELSE IF messages[j].role = "tool" /\ messages[j].tool_call_id = call_id
    THEN messages[j].content
    ELSE IF messages[j].role = "assistant" THEN NoToolResult
    ELSE ResultOf(messages, j + 1, call_id)

RECURSIVE CallsOfMessage(_, _, _)
CallsOfMessage(messages, i, k) ==
    IF k > Len(messages[i].tool_calls) THEN <<>>
    ELSE LET tc == messages[i].tool_calls[k]
         IN  <<[tool |-> tc.tool, args |-> tc.args,
                result |-> ResultOf(messages, i + 1, tc.id),
                turn_index |-> i - 1]>>
             \o CallsOfMessage(messages, i, k + 1)

RECURSIVE ExtractToolCallsFrom(_, _)
ExtractToolCallsFrom(messages, i) ==
    IF i > Len(messages) THEN <<>>
    ELSE (IF messages[i].role = "assistant"
          THEN CallsOfMessage(messages, i, 1) ELSE <<>>)
         \o ExtractToolCallsFrom(messages, i + 1)

\* validators.extract_tool_calls
ExtractToolCalls(messages) == ExtractToolCallsFrom(messages, 1)

Indexes(seq) == 1..Len(seq)

\* validators.extract_final_answer on the assistant messages the loop
\* records: their metadata holds no "result", their content no JSON result
\* and no number of four digits
ExtractFinalAnswer(messages) ==
    LET assistants == {i \in Indexes(messages) : messages[i].role = "assistant"}
        finished == {i \in assistants :
            /\ Cardinality({j \in assistants : j > i}) < 3
            /\ "result" \in DOMAIN messages[i].metadata
            /\ messages[i].metadata.is_finished = "True"
            /\ Truthy(messages[i].metadata.result)}
    IN  IF finished = {} THEN NoneValue
        ELSE messages[CHOOSE i \in finished : \A j \in finished : j <= i]
                 .metadata.result

CalculatorCalls(tool_calls) ==
    {k \in Indexes(tool_calls) : tool_calls[k].tool = "calculator"}

\* validators.check_used_calculator
CheckUsedCalculator(messages) ==
    LET tool_calls == ExtractToolCalls(messages)
    IN  [name |-> "used_calculator",
         passed |-> CalculatorCalls(tool_calls) # {}]

\* validators.check_correct_answer
CheckCorrectAnswer(messages, expected, final_result) ==
    LET given == IF final_result.status # None /\ Truthy(final_result.value)
                 THEN final_result.value ELSE ExtractFinalAnswer(messages)
    IN  [name |-> "correct_answer",
         passed |-> /\ Truthy(given)
                    /\ \E k \in Indexes(given.bounded) : given.bounded[k] = expected]

\* the arguments a calculator call gives as numbers (operation is a string)
NumericArgs(args) == DOMAIN args \ {"operation"}

\* the calculator results of one turn that int() accepts
TurnCalcResults(tool_calls, turn) ==
    {tool_calls[k].result.n : k \in {h \in Indexes(tool_calls) :
        /\ tool_calls[h].turn_index = turn
        /\ tool_calls[h].tool = "calculator"
        /\ tool_calls[h].result.form = "int"}}

\* results become valid as soon as their call has been looked at
ValidBeforeCallUnbatched(tool_calls, valid_file_sizes, k) ==
    valid_file_sizes \cup
    UNION {TurnCalcResults(SubSeq(tool_calls, 1, k - 1), t) :
           t \in 0..tool_calls[k].turn_index}

\* valid_values when call k is looked at: the seed and the results of the
\* turns before its own
ValidBeforeCall(tool_calls, valid_file_sizes, k) ==
    valid_file_sizes \cup
    UNION {TurnCalcResults(tool_calls, t) : t \in 0..(tool_calls[k].turn_index - 1)}

InvalidUses(tool_calls, valid_file_sizes) ==
    UNION {{<<k, a>> : a \in {b \in NumericArgs(tool_calls[k].args) :
                tool_calls[k].args[b] \notin
                    ValidBeforeCall(tool_calls, valid_file_sizes, k)}} :
           k \in CalculatorCalls(tool_calls)}

\* validators.check_used_only_valid_values
CheckUsedOnlyValidValues(messages, valid_file_sizes) ==
    LET invalid_uses == InvalidUses(ExtractToolCalls(messages), valid_file_sizes)
    IN  [name |-> "used_only_valid_values",
         passed |-> invalid_uses = {},
         invalid_uses |-> invalid_uses]

\* validators.check_used_correct_test_files
CheckUsedCorrectTestFiles(messages, expected_sizes) ==
    LET tool_calls == ExtractToolCalls(messages)
        seen_sizes == UNION {FileSizes(LinesOf(tool_calls[k].result)) :
                             k \in {h \in Indexes(tool_calls) :
                                 tool_calls[h].tool = "mocklistdirectory"}}
        used_sizes == UNION {{tool_calls[k].args[a] :
                                 a \in NumericArgs(tool_calls[k].args)} :
                             k \in CalculatorCalls(tool_calls)}
                      \cap seen_sizes
    IN  [name |-> "used_correct_test_files",
         passed |-> expected_sizes \ used_sizes = {} /\ used_sizes \ expected_sizes = {},
         missing |-> expected_sizes \ used_sizes,
         extra |-> used_sizes \ expected_sizes]

\* validators.check_explored_required_paths
CheckExploredRequiredPaths(messages, required_paths) ==
    LET tool_calls == ExtractToolCalls(messages)
        explored_paths == {PathOf(tool_calls[k].args) :
                           k \in {h \in Indexes(tool_calls) :
                               tool_calls[h].tool = "mocklistdirectory"}}
    IN  [name |-> "explored_required_paths",
         passed |-> required_paths \subseteq explored_paths,
         missing |-> required_paths \ explored_paths]

\* validators.validate_trace
ValidateTrace(messages, filesystem, final_result) ==
    LET ground_truth == GetGroundTruth(filesystem)
        results ==
            <<CheckUsedCalculator(messages),
              CheckCorrectAnswer(messages, ground_truth.expected_answer, final_result),
              CheckUsedOnlyValidValues(messages, ground_truth.test_file_sizes),
              CheckUsedCorrectTestFiles(messages, ground_truth.test_file_sizes),
              CheckExploredRequiredPaths(messages, ground_truth.required_paths)>>
        passed == Cardinality({k \in 1..5 : results[k].passed})
    IN  [summary |-> [passed |-> passed, total |-> 5, all_passed |-> passed = 5],
         checks |-> results]

(***************************************************************************)
(* Recorded file-navigator runs and their validation.  A conversation      *)
(* grows by whole turns, as the loop records them: the assistant message   *)
(* with its tool calls, then one tool message per call in request order.   *)
(***************************************************************************)
MaxTraceTurns == 3

ListCall(path) == [tool |-> "mocklistdirectory", args |-> [path |-> path]]

AddCall(x, y) ==
    [tool |-> "calculator", args |-> [operation |-> "add", x |-> x, y |-> y]]

\* the calls a model may request in a turn
TraceCalls ==
    {ListCall(<<"framework">>), ListCall(<<"framework", "tests">>),
     AddCall(1, 2), AddCall(3, 4)}

\* one call, or two different calls in parallel
TraceBatches ==
    {<<c>> : c \in TraceCalls}
    \cup UNION {{<<c, d>> : d \in TraceCalls \ {c}} : c \in TraceCalls}

\* what run() may return: no value, the expected total, another total, a
\* sentence that names a count before the total, the total with a unit
\* written against it
ReturnedValues ==
    {NoneValue, Value(<<7>>), Value(<<3>>), Value(<<3, 7>>), GluedValue(<<7>>)}

NoReport == [validated |-> FALSE]

\* the tool calls recorded so far
CallCount(messages) ==
    Cardinality({i \in Indexes(messages) : messages[i].role = "tool"})

TurnCount(messages) ==
    Cardinality({i \in Indexes(messages) : messages[i].role = "assistant"})

\* the request of the model with the ids the provider gives it
WithIds(batch, n) ==
    [k \in 1..Len(batch) |->
        ToolCall("call_" \o ToString(n + k), batch[k].tool, batch[k].args)]

\* the content a tool's run gives for a call on the mock filesystem
ToolOutput(tc) ==
    IF tc.tool = "mocklistdirectory"
    THEN MockListDirectory(FileSystem, PathOf(tc.args))
    ELSE Calculator(tc.args)

TraceToolMessage(tc) ==
    [Message("tool", ToolOutput(tc)) EXCEPT !.tool_call_id = tc.id, !.name = tc.tool]

\* the assistant message run() records for a response: its content is
\* metadata["raw_response"], which _get_agent_response leaves at "", and its
\* metadata holds the reasoning text of the reply and its is_finished
TraceAssistantMessage(tool_calls, is_finished) ==
    [Message("assistant", "")
       EXCEPT !.tool_calls = tool_calls,
              !.metadata = [NoMetadata EXCEPT !.reasoning = "thinking",
                                              !.is_finished = PyBool(is_finished)]]

\* a turn of the run: the request is recorded, then every call's result
AssistantTurn(batch) ==
    LET tool_calls == WithIds(batch, CallCount(trace.messages))
    IN  /\ trace.final_result.status = None
        /\ ~trace.report.validated
        /\ TurnCount(trace.messages) < MaxTraceTurns
        /\ trace' = [trace EXCEPT !.messages =
               Append(@, TraceAssistantMessage(tool_calls, FALSE))
               \o [k \in 1..Len(tool_calls) |-> TraceToolMessage(tool_calls[k])]]
        /\ UNCHANGED <<agent, twin, checkpoint_file, runs, llm_calls,
                       reported_tokens, start, last_response, unit>>

\* the run finishes: the last response is recorded and run() returns value
Finishes(value) ==
    /\ trace.final_result.status = None
    /\ ~trace.report.validated
    /\ trace' = [trace EXCEPT
           !.messages = Append(@, TraceAssistantMessage(<<>>, TRUE)),
           !.final_result = Result(value, "success", None)]
    /\ UNCHANGED <<agent, twin, checkpoint_file, runs, llm_calls,
                   reported_tokens, start, last_response, unit>>

\* both validate_trace functions are given the conversation
Validates ==
    /\ ~trace.report.validated
    /\ trace' = [trace EXCEPT !.report =
           LET ground_truth == GetGroundTruth(FileSystem)
           IN  [validated |-> TRUE,
                eval |-> ValidateTraceSM(trace.messages, FileSystem,
                                         ground_truth.expected_answer,
                                         ground_truth.test_file_sizes,
                                         trace.final_result),
                forensic |-> ValidateTrace(trace.messages, FileSystem,
                                           trace.final_result)]]
    /\ UNCHANGED <<agent, twin, checkpoint_file, runs, llm_calls,
                   reported_tokens, start, last_response, unit>>

InitTrace ==
    /\ agent = NewAgent(RepositoryLLM, Tools, <<>>, 1)
    /\ twin = NewAgent(RepositoryLLM, Tools, <<>>, 1)
    /\ checkpoint_file = <<>>
    /\ runs = 0
    /\ llm_calls = 0
    /\ reported_tokens = 0
    /\ start = NoStart
    /\ last_response = NoProviderResponse
    /\ unit = <<>>
    /\ trace = [messages |-> <<Message("user", Text("task"))>>,
                final_result |-> NoResult,
                report |-> NoReport]

NextTrace ==
    \/ \E batch \in TraceBatches : AssistantTurn(batch)
    \/ \E value \in ReturnedValues : Finishes(value)
    \/ Validates

SpecTrace == InitTrace /\ [][NextTrace]_vars

(***************************************************************************)
(* Vocabulary of the trace properties.                                     *)
(***************************************************************************)
ToolMessagesBefore(messages, i) ==
    {j \in 1..(i - 1) : messages[j].role = "tool"}

\* the file sizes that listing results before message i surfaced
SurfacedBefore(messages, i) ==
    UNION {FileSizes(LinesOf(messages[j].content)) :
           j \in ToolMessagesBefore(messages, i)}

\* the results of the calculator calls of the turns before message i
ComputedBefore(messages, i) ==
    {messages[j].content.n :
     j \in {h \in ToolMessagesBefore(messages, i) : messages[h].content.form = "int"}}

\* the calculator calls of the conversation, as <<message, position>>
TraceCalculatorCalls(messages) ==
    UNION {{<<i, k>> : k \in {h \in Indexes(messages[i].tool_calls) :
                messages[i].tool_calls[h].tool = "calculator"}} :
           i \in {j \in Indexes(messages) : messages[j].role = "assistant"}}

ArgsOfCall(messages, c) ==
    {messages[c[1]].tool_calls[c[2]].args.x, messages[c[1]].tool_calls[c[2]].args.y}

\* calculator calls with an argument that no earlier listing surfaced and no
\* earlier turn computed
Ungrounded(messages) ==
    {c \in TraceCalculatorCalls(messages) :
        ~(ArgsOfCall(messages, c) \subseteq
            SurfacedBefore(messages, c[1]) \cup ComputedBefore(messages, c[1]))}

Validated == trace.report.validated

(***************************************************************************)
(* C21  Grounding.  In a validated trace, a calculator call with a numeric *)
(* argument that is neither a file size surfaced by an earlier listing     *)
(* result nor the result of a calculator call of an earlier turn is        *)
(* reported: the grounding check fails, and with it the whole validation,  *)
(* in the state-machine validator (violations) and in the forensic one     *)
(* (used_only_valid_values).                                               *)
(***************************************************************************)
C21_Grounding ==
    Validated /\ Ungrounded(trace.messages) # {} =>
        /\ ~trace.report.eval.trace_validation.passed
        /\ ~trace.report.eval.passed
        /\ ~trace.report.forensic.checks[3].passed
        /\ ~trace.report.forensic.summary.all_passed

\* the turn number validate_trace gives the assistant message at i
TurnNumber(messages, i) ==
    Cardinality({j \in 1..i : messages[j].role = "assistant"})

\* the position of call c in the list extract_tool_calls builds
FlatIndex(messages, c) ==
    CallCount(SubSeq(messages, 1, c[1])) + c[2]

\* the results of the calculator calls of c's own turn
SiblingResults(messages, c) ==
    {messages[c[1]].tool_calls[k].args.x + messages[c[1]].tool_calls[k].args.y :
     k \in {h \in Indexes(messages[c[1]].tool_calls) :
         h # c[2] /\ messages[c[1]].tool_calls[h].tool = "calculator"}}

\* what each implementation holds valid when the turn of message i begins
ValidBeforeTurn(impl, messages, i) ==
    ComputedBefore(messages, i) \cup
    (IF impl = "eval" THEN SurfacedBefore(messages, i)
     ELSE GetGroundTruth(FileSystem).test_file_sizes)

NotYetValid(impl, messages, c) ==
    ArgsOfCall(messages, c) \ ValidBeforeTurn(impl, messages, c[1])

\* the forensic report flags call c
FlaggedForensic(c) ==
    \E use \in trace.report.forensic.checks[3].invalid_uses :
        use[1] = FlatIndex(trace.messages, c)

EvalViolations(turn) ==
    LET violations == trace.report.eval.trace_validation.violations
    IN  {k \in Indexes(violations) :
            violations[k].type = "invalid_calculator_arg" /\ violations[k].turn = turn}

\* the state-machine report flags the calls of message i that use a value not
\* yet valid, and no other call of it
FlagsExactly(i, calls) ==
    LET violations == trace.report.eval.trace_validation.violations
        turn == TurnNumber(trace.messages, i)
    IN  /\ Cardinality(EvalViolations(turn)) = Cardinality(calls)
        /\ \A c \in calls : \E k \in EvalViolations(turn) :
               violations[k].value \in NotYetValid("eval", trace.messages, c)

(***************************************************************************)
(* C22  Same-turn batching.  In both validate_trace implementations a      *)
(* calculator result becomes valid only once its whole turn has been       *)
(* validated: a call is flagged exactly when one of its arguments was not  *)
(* valid when its turn began, so an argument that is only the result of a  *)
(* sibling call of the same turn is flagged, and an argument that is the   *)
(* result of a call of an earlier turn is not.                             *)
(***************************************************************************)
C22_Batching ==
    Validated =>
        /\ \A c \in TraceCalculatorCalls(trace.messages) :
               FlaggedForensic(c) <=> NotYetValid("forensic", trace.messages, c) # {}
        /\ \A i \in Indexes(trace.messages) :
               trace.messages[i].role = "assistant" =>
                   FlagsExactly(i, {c \in TraceCalculatorCalls(trace.messages) :
                       c[1] = i /\ NotYetValid("eval", trace.messages, c) # {}})

\* a turn holds a call that uses its sibling's result and is flagged by both
\* validators, and a call of a later turn uses that result and is flagged by
\* neither
C22_Witness ==
    /\ Validated
    /\ \E c \in TraceCalculatorCalls(trace.messages) :
        \E d \in TraceCalculatorCalls(trace.messages) :
            \E v \in SiblingResults(trace.messages, c) :
                /\ v \in NotYetValid("eval", trace.messages, c)
                /\ v \in NotYetValid("forensic", trace.messages, c)
                /\ FlaggedForensic(c)
                /\ EvalViolations(TurnNumber(trace.messages, c[1])) # {}
                /\ d[1] > c[1]
                /\ v \in ArgsOfCall(trace.messages, d)
                /\ ~FlaggedForensic(d)
                /\ EvalViolations(TurnNumber(trace.messages, d[1])) = {}

\* the listing calls of the conversation, as <<message, position>>
TraceListingCalls(messages) ==
    UNION {{<<i, k>> : k \in {h \in Indexes(messages[i].tool_calls) :
                messages[i].tool_calls[h].tool = "mocklistdirectory"}} :
           i \in {j \in Indexes(messages) : messages[j].role = "assistant"}}

PathOfCall(messages, c) == PathOf(messages[c[1]].tool_calls[c[2]].args)

\* the paths that were the target of a listing call
ListedPaths(messages) ==
    {PathOfCall(messages, c) : c \in TraceListingCalls(messages)}

\* the tool message that answers call c
AnswerOf(messages, c) ==
    CHOOSE j \in Indexes(messages) :
        /\ messages[j].role = "tool"
        /\ messages[j].tool_call_id = messages[c[1]].tool_calls[c[2]].id

\* the subdirectories a listing result shows, cache directories left out
SubdirectoriesIn(lines) ==
    {lines[k].name : k \in {h \in Indexes(lines) :
        lines[h].kind = "directory" /\ lines[h].name # "__pycache__"}}

\* the paths of the subdirectories that the listing results revealed
RevealedPaths(messages) ==
    UNION {{Append(PathOfCall(messages, c), name) :
            name \in SubdirectoriesIn(LinesOf(messages[AnswerOf(messages, c)].content))} :
           c \in TraceListingCalls(messages)}

(***************************************************************************)
(* C23  Exploration completeness.  After the state-machine validate_trace  *)
(* has scanned a trace, required_calls is empty exactly when the initial   *)
(* path and every subdirectory that a processed listing result revealed    *)
(* (other than __pycache__) was the target of at least one listing call of *)
(* the trace.                                                              *)
(***************************************************************************)
C23_Completeness ==
    Validated =>
        (trace.report.eval.validator.required_calls = <<>>
         <=> {<<"framework">>} \cup RevealedPaths(trace.messages)
                 \subseteq ListedPaths(trace.messages))

\* run() returned a value in which a number can be read
AnswerGiven ==
    /\ trace.final_result.status # None
    /\ trace.final_result.value.form = "text"
    /\ trace.final_result.value.numbers # <<>>

\* the first number in the returned value
GivenAnswer == trace.final_result.value.numbers[1]

\* every value a listing or calculator result of the conversation produced
ProducedByTools ==
    SurfacedBefore(trace.messages, Len(trace.messages) + 1)
    \cup ComputedBefore(trace.messages, Len(trace.messages) + 1)

ExpectedAnswer == GetGroundTruth(FileSystem).expected_answer

AnswerIssues ==
    {trace.report.eval.answer.issues[k].type :
     k \in Indexes(trace.report.eval.answer.issues)}

(***************************************************************************)
(* C24  Final-answer check.  check_final_answer of the state-machine       *)
(* validator passes exactly when the number read from the returned value   *)
(* equals the expected answer and was produced by a listing or calculator  *)
(* result of the trace; the expected value that no tool result produced    *)
(* fails with answer_not_from_tool, and a missing answer fails.            *)
(***************************************************************************)
C24_FinalAnswer ==
    Validated =>
        /\ trace.report.eval.answer.passed
               <=> (AnswerGiven /\ GivenAnswer = ExpectedAnswer
                    /\ GivenAnswer \in ProducedByTools)
        /\ AnswerGiven /\ GivenAnswer \notin ProducedByTools
               => "answer_not_from_tool" \in AnswerIssues
        /\ ~AnswerGiven => ~trace.report.eval.answer.passed
        /\ ~trace.report.eval.answer.passed => ~trace.report.eval.passed

\* the run returned the expected total although no tool result produced it,
\* and the check failed for that reason alone
C24_Witness ==
    /\ Validated
    /\ AnswerGiven
    /\ GivenAnswer = ExpectedAnswer
    /\ GivenAnswer \notin ProducedByTools
    /\ AnswerIssues = {"answer_not_from_tool"}
    /\ ~trace.report.eval.answer.passed
    /\ TraceCalculatorCalls(trace.messages) # {}

GroundTruth == GetGroundTruth(FileSystem)

ResultOfCall(messages, c) == messages[AnswerOf(messages, c)].content.n

\* the arguments of all calculator calls, each with the call that uses it
ArgumentUses(messages) ==
    {<<c, a>> \in TraceCalculatorCalls(messages) \X {"x", "y"} : TRUE}

ArgOf(messages, use) == messages[use[1][1]].tool_calls[use[1][2]].args[use[2]]

\* a correct run: every required directory is listed; then the test-file
\* sizes are added up in rounds, each call adding two values that are sizes
\* of test files or results of earlier rounds, each size and each
\* intermediate result used once; the total is returned
CorrectTrace ==
    LET calls == TraceCalculatorCalls(trace.messages)
        results == {ResultOfCall(trace.messages, c) : c \in calls}
        uses == ArgumentUses(trace.messages)
    IN  /\ GroundTruth.required_paths \subseteq ListedPaths(trace.messages)
        /\ \A l \in TraceListingCalls(trace.messages) : \A c \in calls : l[1] < c[1]
        /\ Cardinality(calls) = GroundTruth.num_test_files - 1
        /\ \A c \in calls :
               ArgsOfCall(trace.messages, c) \subseteq
                   (SurfacedBefore(trace.messages, c[1]) \cap GroundTruth.test_file_sizes)
                   \cup ComputedBefore(trace.messages, c[1])
        /\ {ArgOf(trace.messages, u) : u \in uses}
               = GroundTruth.test_file_sizes \cup (results \ {GroundTruth.expected_answer})
        /\ Cardinality(uses) = Cardinality({ArgOf(trace.messages, u) : u \in uses})
        /\ GroundTruth.expected_answer \in results
        /\ trace.final_result.status = "success"
        /\ trace.final_result.value = Value(<<GroundTruth.expected_answer>>)

(***************************************************************************)
(* C25  A correct trace passes.  A trace that lists every required         *)
(* directory, then sums the surfaced test-file sizes by rounds of pairwise *)
(* calculator additions that only use file sizes or results of earlier     *)
(* rounds, and returns the expected total, passes all five checks of the   *)
(* forensic validate_trace.                                                *)
(***************************************************************************)
C25_CorrectTracePasses ==
    Validated /\ CorrectTrace => trace.report.forensic.summary.all_passed

(***************************************************************************)
(* The response normalizer on text (framework/llm.py 210-409).             *)
(*                                                                         *)
(* A text is a sequence of pieces.  What the normalizer's patterns look    *)
(* for is a piece of its own: the braces and brackets, the double quote    *)
(* "quote", the "backslash", the newline "nl", the space "sp", the fences  *)
(* with and without the word json, the XML tags and the preambles.  Every  *)
(* other piece (a word, a colon, a comma, a literal) holds none of those   *)
(* characters and is passed over as a whole.                               *)
(***************************************************************************)
Quote == "quote"

Backslash == "backslash"

Whitespace == {"nl", "sp"}

Fences == {"fence_json", "fence"}

Preambles == <<"Assistant:", "Here is the JSON:", "Response:", "Output:">>

RECURSIVE StripLeft(_)
StripLeft(text) ==
    IF text # <<>> /\ Head(text) \in Whitespace THEN StripLeft(Tail(text)) ELSE text

RECURSIVE StripRight(_)
StripRight(text) ==
    IF text # <<>> /\ text[Len(text)] \in Whitespace
    THEN StripRight(SubSeq(text, 1, Len(text) - 1)) ELSE text

\* str.strip()
Strip(text) == StripRight(StripLeft(text))

\* the positions of text that hold one of the pieces
Positions(text, pieces) == {i \in 1..Len(text) : text[i] \in pieces}

Min(S) == CHOOSE x \in S : \A y \in S : x <= y

RECURSIVE Escaped(_)
\* json.dumps on the characters of a string
Escaped(text) ==
    IF text = <<>> THEN <<>>
    ELSE (IF Head(text) = Quote THEN <<Backslash, Quote>>
          ELSE IF Head(text) = Backslash THEN <<Backslash, Backslash>>
          ELSE IF Head(text) = "nl" THEN <<Backslash, "n">>
          ELSE <<Head(text)>>) \o Escaped(Tail(text))

JsonString(text) == <<Quote>> \o Escaped(text) \o <<Quote>>

\* a key of an object with its colon
Key(name) == <<Quote, name, Quote, ":">>

\* a string field that may be null: <<>> is None, <<text>> a string
JsonOptional(field) == IF field = <<>> THEN <<"null">> ELSE JsonString(field[1])

\* a tool call without arguments
JsonCall(tc) ==
    <<"{">> \o Key("id") \o JsonString(<<tc.id>>)
    \o <<",">> \o Key("tool") \o JsonString(<<tc.tool>>)
    \o <<",">> \o Key("args") \o <<"{", "}", "}">>

RECURSIVE JsonCallsFrom(_, _)
JsonCallsFrom(tool_calls, k) ==
    IF k > Len(tool_calls) THEN <<>>
    ELSE (IF k > 1 THEN <<",">> ELSE <<>>) \o JsonCall(tool_calls[k])
         \o JsonCallsFrom(tool_calls, k + 1)

JsonArray(tool_calls) == <<"[">> \o JsonCallsFrom(tool_calls, 1) \o <<"]">>

\* the text json.dumps writes for an object with the four fields of a
\* response: reasoning and result are texts, result possibly null, and
\* tool_calls is given as the JSON text of its array
JsonObject(reasoning, tool_calls, result, is_finished) ==
    <<"{">> \o Key("reasoning") \o JsonString(reasoning)
    \o <<",">> \o Key("tool_calls") \o tool_calls
    \o <<",">> \o Key("result") \o JsonOptional(result)
    \o <<",">> \o Key("is_finished")
    \o <<IF is_finished THEN "true" ELSE "false", "}">>

\* json.dumps of a response object
JsonText(resp) ==
    JsonObject(resp.reasoning, JsonArray(resp.tool_calls), resp.result,
               resp.is_finished)

\* json.dumps of the response object the two converters build, from the
\* reasoning text and the JSON text of the tool calls
Converted(reasoning_text, tool_calls) ==
    JsonObject(IF reasoning_text = <<>> THEN <<FallbackReasoning>> ELSE reasoning_text,
               tool_calls, <<>>, FALSE)

RECURSIVE ToolCallBlocks(_, _)
\* re.findall(r"<tool_call>(.*?)</tool_call>") from position p on
ToolCallBlocks(response, p) ==
    LET opens == {i \in Positions(response, {"tool_call_open"}) : i >= p}
        closes == {j \in Positions(response, {"tool_call_close"}) : j > Min(opens)}
    IN  IF opens = {} \/ closes = {} THEN <<>>
        ELSE <<SubSeq(response, Min(opens) + 1, Min(closes) - 1)>>
             \o ToolCallBlocks(response, Min(closes) + 1)

RECURSIVE ConvertedToolCalls(_, _)
\* one call per block that names a function; the id counts every block
ConvertedToolCalls(blocks, i) ==
    IF i > Len(blocks) THEN <<>>
    ELSE (IF Positions(blocks[i], {"function_calc"}) = {} THEN <<>>
          ELSE <<[id |-> CallId(i), tool |-> "calc"]>>)
         \o ConvertedToolCalls(blocks, i + 1)

\* LLM._convert_xml_tool_call_format
ConvertXmlToolCallFormatText(response) ==
    LET converted_tool_calls == ConvertedToolCalls(ToolCallBlocks(response, 1), 1)
        first == Min(Positions(response, {"tool_call_open"}))
    IN  IF converted_tool_calls = <<>> THEN response
        ELSE Converted(Strip(SubSeq(response, 1, first - 1)),
                       JsonArray(converted_tool_calls))

\* the first position after i that holds no whitespace (Len + 1 if none)
NextVisible(response, i) ==
    Min({j \in (i + 1)..(Len(response) + 1) :
            j = Len(response) + 1 \/ response[j] \notin Whitespace})

Holds(response, i, piece) == i <= Len(response) /\ response[i] = piece

\* re.search(r"<function_calls>\s*(\[.*?\])\s*</function_calls>"): the
\* positions <<tag, "[", "]">> of the match, or <<>>
FunctionCallsMatch(response) ==
    LET ends(i) == {q \in Positions(response, {"]"}) :
                       /\ q > NextVisible(response, i)
                       /\ Holds(response, NextVisible(response, q), "function_calls_close")}
        tags == {i \in Positions(response, {"function_calls_open"}) :
                    Holds(response, NextVisible(response, i), "[") /\ ends(i) # {}}
    IN  IF tags = {} THEN <<>>
        ELSE <<Min(tags), NextVisible(response, Min(tags)), Min(ends(Min(tags)))>>

RECURSIVE SkipWhitespace(_, _)
\* the first position from i on that holds no whitespace (Len + 1 if none)
SkipWhitespace(text, i) ==
    IF i <= Len(text) /\ text[i] \in Whitespace THEN SkipWhitespace(text, i + 1)
    ELSE i

\* the JSON literals
JsonLiterals == {"null", "true", "false"}

\* the numbers of the texts: the ints up to the largest counter, and a float
JsonInts == 0..RTMaxCount

JsonNumbers == {ToString(n) : n \in JsonInts} \cup {"1.5"}

\* what may follow a backslash inside a JSON string, with the character it
\* stands for
Unescaped(piece) ==
    IF piece = "n" THEN "nl" ELSE piece

JsonEscapes == {Quote, Backslash, "n"}

\* the result of parsing one JSON value: whether there is one, the text
\* json.dumps writes for it, its parts (the items of an array, the members
\* of an object, each with the text json.dumps writes for it) and the
\* position after it
NoJson == [ok |-> FALSE, text |-> <<>>, parts |-> <<>>, next |-> 0]

RECURSIVE JsonStringFrom(_, _, _)
\* the characters of the string literal whose opening quote stands before
\* i: a raw newline and an unknown escape are no JSON, and so is a string
\* the text ends in
JsonStringFrom(text, i, chars) ==
    IF i > Len(text) \/ text[i] = "nl" THEN NoJson
    ELSE IF text[i] = Quote
    THEN [ok |-> TRUE, text |-> chars, parts |-> <<>>, next |-> i + 1]
    ELSE IF text[i] = Backslash
    THEN IF i < Len(text) /\ text[i + 1] \in JsonEscapes
         THEN JsonStringFrom(text, i + 2, Append(chars, Unescaped(text[i + 1])))
         ELSE NoJson
    ELSE JsonStringFrom(text, i + 1, Append(chars, text[i]))

\* a dict built in the order of the text: a key that comes again takes the
\* new value and keeps its place
PutMember(members, key, value) ==
    IF \E k \in 1..Len(members) : members[k].key = key
    THEN [k \in 1..Len(members) |->
             IF members[k].key = key THEN [key |-> key, value |-> value]
             ELSE members[k]]
    ELSE Append(members, [key |-> key, value |-> value])

RECURSIVE JsonMembersFrom(_, _)
\* json.dumps of the parts of a list or dict from the k-th on; the key of
\* an item of a list is <<>>
JsonMembersFrom(members, k) ==
    IF k > Len(members) THEN <<>>
    ELSE (IF k > 1 THEN <<",">> ELSE <<>>)
         \o (IF members[k].key = <<>> THEN <<>>
             ELSE JsonString(members[k].key[1]) \o <<":">>)
         \o members[k].value
         \o JsonMembersFrom(members, k + 1)

RECURSIVE JsonValueAt(_, _)
RECURSIVE JsonItemsFrom(_, _, _)
RECURSIVE JsonPairsFrom(_, _, _)
\* the JSON value that starts at i (json.JSONDecoder.raw_decode)
JsonValueAt(text, i) ==
    IF i > Len(text) THEN NoJson
    ELSE IF text[i] = Quote
    THEN LET str == JsonStringFrom(text, i + 1, <<>>)
         IN  IF str.ok THEN [str EXCEPT !.text = JsonString(str.text)] ELSE NoJson
    ELSE IF text[i] \in JsonLiterals \cup JsonNumbers
    THEN [ok |-> TRUE, text |-> <<text[i]>>, parts |-> <<>>, next |-> i + 1]
    ELSE IF text[i] = "["
    THEN IF Holds(text, SkipWhitespace(text, i + 1), "]")
         THEN [ok |-> TRUE, text |-> <<"[", "]">>, parts |-> <<>>,
               next |-> SkipWhitespace(text, i + 1) + 1]
         ELSE JsonItemsFrom(text, SkipWhitespace(text, i + 1), <<>>)
    ELSE IF text[i] = "{"
    THEN IF Holds(text, SkipWhitespace(text, i + 1), "}")
         THEN [ok |-> TRUE, text |-> <<"{", "}">>, parts |-> <<>>,
               next |-> SkipWhitespace(text, i + 1) + 1]
         ELSE JsonPairsFrom(text, SkipWhitespace(text, i + 1), <<>>)
    ELSE NoJson

\* the items of an array from the one at i on, up to the closing bracket;
\* items holds the ones before
JsonItemsFrom(text, i, items) ==
    LET value == JsonValueAt(text, i)
        after == SkipWhitespace(text, value.next)
        put == Append(items, [key |-> <<>>, value |-> value.text])
    IN  IF ~value.ok THEN NoJson
        ELSE IF Holds(text, after, "]")
        THEN [ok |-> TRUE, text |-> <<"[">> \o JsonMembersFrom(put, 1) \o <<"]">>,
              parts |-> put, next |-> after + 1]
        ELSE IF Holds(text, after, ",")
        THEN JsonItemsFrom(text, SkipWhitespace(text, after + 1), put)
        ELSE NoJson

\* the members of an object from the key at i on, up to the closing brace
JsonPairsFrom(text, i, members) ==
    LET key == IF Holds(text, i, Quote) THEN JsonStringFrom(text, i + 1, <<>>)
               ELSE NoJson
        colon == SkipWhitespace(text, key.next)
        value == IF key.ok /\ Holds(text, colon, ":")
                 THEN JsonValueAt(text, SkipWhitespace(text, colon + 1))
                 ELSE NoJson
        after == SkipWhitespace(text, value.next)
        put == PutMember(members, <<key.text>>, value.text)
    IN  IF ~value.ok THEN NoJson
        ELSE IF Holds(text, after, "}")
        THEN [ok |-> TRUE, text |-> <<"{">> \o JsonMembersFrom(put, 1) \o <<"}">>,
              parts |-> put, next |-> after + 1]
        ELSE IF Holds(text, after, ",")
        THEN JsonPairsFrom(text, SkipWhitespace(text, after + 1), put)
        ELSE NoJson

\* json.loads on a text, given back as json.dumps writes the value: that
\* text in a sequence of one, or <<>> when the text is no JSON or more
\* follows the value (JSONDecodeError)
JsonLoads(text) ==
    LET value == JsonValueAt(text, SkipWhitespace(text, 1))
    IN  IF value.ok /\ SkipWhitespace(text, value.next) > Len(text)
        THEN <<value.text>> ELSE <<>>

\* LLM._convert_anthropic_format: [raised, text]
ConvertAnthropicFormatText(response) ==
    LET m == FunctionCallsMatch(response)
        loaded == JsonLoads(SubSeq(response, m[2], m[3]))
    IN  IF m = <<>> THEN [raised |-> None, text |-> response]
        ELSE IF loaded = <<>> THEN [raised |-> "JSONDecodeError", text |-> response]
        ELSE [raised |-> None,
              text |-> Converted(Strip(SubSeq(response, 1, m[1] - 1)), loaded[1])]

\* re.sub(r"^\s*<preamble>\s*", "", response)
StripPreamble(response, preamble) ==
    IF StripLeft(response) # <<>> /\ Head(StripLeft(response)) = preamble
    THEN StripLeft(Tail(StripLeft(response)))
    ELSE response

RECURSIVE StripPreambles(_, _)
\* the loop over preamble_patterns, one substitution after the other
StripPreambles(response, k) ==
    IF k > Len(Preambles) THEN response
    ELSE StripPreambles(StripPreamble(response, Preambles[k]), k + 1)

Max(S) == CHOOSE x \in S : \A y \in S : x >= y

\* the newlines before a closing fence
FenceEnds(response) ==
    {j \in Positions(response, {"nl"}) :
        j < Len(response) /\ response[j + 1] \in Fences}

\* the newlines in the whitespace after the fence at i that a closing fence
\* follows
FenceStarts(response, i) ==
    {k \in (i + 1)..(NextVisible(response, i) - 1) :
        response[k] = "nl" /\ \E j \in FenceEnds(response) : j > k}

\* re.search(r"```(?:json)?\s*\n(.*?)\n```") and its group(1)
ExtractFence(response) ==
    LET opens == {i \in Positions(response, Fences) : FenceStarts(response, i) # {}}
        k == Max(FenceStarts(response, Min(opens)))
        j == Min({e \in FenceEnds(response) : e > k})
    IN  IF opens = {} THEN response ELSE SubSeq(response, k + 1, j - 1)

\* the round that counts the braces of string literals too
CountBracesInStrings(st, piece) ==
    IF st.escape_next THEN [st EXCEPT !.escape_next = FALSE]
    ELSE IF piece = Backslash THEN [st EXCEPT !.escape_next = TRUE]
    ELSE IF piece = Quote THEN [st EXCEPT !.in_string = ~@]
    ELSE IF piece = "{" THEN [st EXCEPT !.brace_count = @ + 1]
    ELSE IF piece = "}" THEN [st EXCEPT !.brace_count = @ - 1]
    ELSE st

\* one round of the brace-counting loop, on the piece at hand
CountBraces(st, piece) ==
    IF st.escape_next THEN [st EXCEPT !.escape_next = FALSE]
    ELSE IF piece = Backslash THEN [st EXCEPT !.escape_next = TRUE]
    ELSE IF piece = Quote THEN [st EXCEPT !.in_string = ~@]
    ELSE IF ~st.in_string /\ piece = "{" THEN [st EXCEPT !.brace_count = @ + 1]
    ELSE IF ~st.in_string /\ piece = "}" THEN [st EXCEPT !.brace_count = @ - 1]
    ELSE st

RECURSIVE BalancedEnd(_, _, _)
\* the brace-counting loop from position i: the position of the brace that
\* brings the count back to 0, or 0 when the text ends before
BalancedEnd(response, i, st) ==
    IF i > Len(response) THEN 0
    ELSE IF CountBraces(st, response[i]).brace_count = 0 THEN i
    ELSE BalancedEnd(response, i + 1, CountBraces(st, response[i]))

\* from the first brace to the one that balances it, or to the end
ExtractObject(response) ==
    LET braces == Positions(response, {"{"})
        start_idx == Min(braces)
        end == BalancedEnd(response, start_idx,
                           [brace_count |-> 0, in_string |-> FALSE,
                            escape_next |-> FALSE])
    IN  IF braces = {} THEN response
        ELSE IF end = 0 THEN SubSeq(response, start_idx, Len(response))
        ELSE SubSeq(response, start_idx, end)

\* LLM._clean_markdown_response: [raised, text]
CleanMarkdownResponseText(response) ==
    LET xml == ConvertXmlToolCallFormatText(response)
        anthropic == ConvertAnthropicFormatText(response)
    IN  IF xml # response THEN [raised |-> None, text |-> xml]
        ELSE IF anthropic.raised # None \/ anthropic.text # response THEN anthropic
        ELSE [raised |-> None,
              text |-> ExtractObject(ExtractFence(StripPreambles(response, 1)))]

\* the tool-call lists of the response objects given to the normalizer
ToolCallLists == {<<>>, <<[id |-> "call_1", tool |-> "calc"]>>}

(***************************************************************************)
(* Direct calls of the normalizer: on a response object written as clean   *)
(* JSON, bare or wrapped in one of the dialects, and on other text.        *)
(***************************************************************************)
MaxCleanCalls == 1

\* what a string field may hold: a word; an open brace; a quoted word; a
\* fenced block; a <tool_call> block; a <function_calls> block with an
\* empty array; one with an array that is no JSON; one with spaces around
\* an array of one value
FieldTexts ==
    {<<"w">>,
     <<"w", "{">>,
     <<Quote, "w", Quote>>,
     <<"w", "nl", "fence_json", "nl", "w", "nl", "fence">>,
     <<"w", "tool_call_open", "function_calc", "tool_call_close">>,
     <<"function_calls_open", "[", "]", "function_calls_close">>,
     <<"function_calls_open", "[", "w", "]", "function_calls_close">>,
     <<"w", "sp", "function_calls_open", "sp", "[", "sp", "null", "]", "sp",
       "function_calls_close">>}

ResponseObjects ==
    [reasoning : FieldTexts,
     tool_calls : ToolCallLists,
     result : {<<>>, <<<<"w">>>>},
     is_finished : BOOLEAN]

Dialects ==
    {"bare", "padded", "fence_json", "fence", "preamble", "assistant",
     "trailing", "all"}

\* a JSON text as the dialect writes it
Wrap(dialect, text) ==
    IF dialect = "padded" THEN <<"sp", "nl">> \o text \o <<"nl">>
    ELSE IF dialect = "fence_json" THEN <<"fence_json", "nl">> \o text \o <<"nl", "fence">>
    ELSE IF dialect = "fence" THEN <<"fence", "nl">> \o text \o <<"nl", "fence">>
    ELSE IF dialect = "preamble" THEN <<"Here is the JSON:", "sp">> \o text
    ELSE IF dialect = "assistant" THEN <<"Assistant:", "sp">> \o text
    ELSE IF dialect = "trailing" THEN text \o <<"nl", "nl", "w", "sp", "w">>
    ELSE IF dialect = "all"
    THEN <<"Assistant:", "nl", "fence_json", "nl">> \o text \o <<"nl", "fence", "nl", "w">>
    ELSE text

\* a <function_calls> block around body, with text before and after it
Block(pre, body, post) ==
    pre \o <<"function_calls_open">> \o body \o <<"function_calls_close">> \o post

\* <function_calls> blocks as <<text before, body, text after>>.  Arrays
\* json.loads takes: one call written over several lines, after a line of
\* reasoning and after none; blanks and a newline between the tokens of an
\* object; an object that gives a key twice; a nested array, literals and
\* an empty object; a string that holds a bracket; a string with escapes.
\* Bodies json.loads refuses: two arrays; a comma before the bracket; a
\* newline inside a string; an unknown escape; a key without quotes; a key
\* without colon; a string left open; two literals with no comma.
FunctionCallsBlocks ==
    {<<<<"nl", "w", "nl">>,
       <<"nl", "[", "nl", "sp", "sp">> \o JsonCall([id |-> "call_1", tool |-> "calc"])
           \o <<"nl", "]", "nl">>,
       <<"nl">>>>,
     <<<<"nl">>,
       <<"nl", "[", "nl", "sp", "sp">> \o JsonCall([id |-> "call_1", tool |-> "calc"])
           \o <<"nl", "]">>,
       <<"nl">>>>,
     <<<<>>,
       <<"[", "{", "sp", Quote, "id", Quote, "sp", ":", "nl", Quote, "call_1", Quote,
         "sp", "}", "sp", ",", "sp", "null", "]">>,
       <<>>>>,
     <<<<>>,
       <<"[", "{">> \o Key("id") \o JsonString(<<"call_1">>) \o <<",">>
           \o Key("tool") \o <<"null", ",">> \o Key("id") \o JsonString(<<"call_2">>)
           \o <<"}", "]">>,
       <<>>>>,
     <<<<>>, <<"[", "[", "true", ",", "false", "]", ",", "{", "}", "]">>, <<>>>>,
     <<<<>>, <<"[", Quote, "]", Quote, "]">>, <<>>>>,
     <<<<>>,
       <<"[", Quote, "w", Backslash, "n", Backslash, Quote, Backslash, Backslash, "sp",
         Quote, "]">>,
       <<>>>>,
     <<<<>>, <<"[", "]", ",", "[", "]">>, <<>>>>,
     <<<<>>, <<"[", "null", ",", "]">>, <<>>>>,
     <<<<>>, <<"[", Quote, "w", "nl", "w", Quote, "]">>, <<>>>>,
     <<<<>>, <<"[", Quote, Backslash, "w", Quote, "]">>, <<>>>>,
     <<<<>>, <<"[", "{", "w", "}", "]">>, <<>>>>,
     <<<<>>, <<"[", "{", Quote, "id", Quote, "null", "}", "]">>, <<>>>>,
     <<<<>>, <<"[", Quote, "]">>, <<>>>>,
     <<<<>>, <<"[", "null", "null", "]">>, <<>>>>}

\* text that is no response object: prose; nothing; an unterminated fence,
\* object, <tool_call> and <function_calls>; a <tool_call> block without a
\* function; <function_calls> blocks around JSON and around other text;
\* two objects; nested braces with a string that holds braces and an
\* escaped quote; a backslash outside any string, ahead of a brace and of a
\* quote, and ahead of a brace after a string with a brace and an escaped
\* quote; prose behind a preamble and inside a fence; an object left open
\* inside a fence
OtherTexts ==
    {<<"w", "sp", "w">>,
     <<>>,
     <<"fence_json", "nl", "{", "w">>,
     <<"{", Quote, "reasoning", Quote, ":", Quote, "w">>,
     <<"w", "tool_call_open", "function_calc">>,
     <<"function_calls_open", "[", "w">>,
     <<"tool_call_open", "w", "tool_call_close">>,
     <<"w", "nl", "function_calls_open", "nl">>
         \o JsonArray(<<[id |-> "call_1", tool |-> "calc"]>>)
         \o <<"nl", "function_calls_close">>,
     <<"function_calls_open", "[", "w", "]", "function_calls_close">>,
     <<"{", "w", "}", "nl", "{", "w", "}">>,
     <<"w", "{", "{", "w", "}", Quote, "}", Backslash, Quote, "}", Quote, "}", "w">>,
     <<"{", Backslash, "}", "}", "w">>,
     <<"{", Backslash, Quote, "}", Quote, "}">>,
     <<"w", "{", Quote, "}", Backslash, Quote, "}", Quote, Backslash, "}", "}", "w">>,
     <<"Assistant:", "sp", "w", "sp", "w">>,
     <<"fence", "nl", "w", "nl", "fence">>,
     <<"Output:", "nl", "fence_json", "nl", "w", "{", "{", "}", "nl", "fence", "}">>}
    \cup {Block(pre, body, post) : <<pre, body, post>> \in FunctionCallsBlocks}

NoObject == [reasoning |-> <<>>, tool_calls |-> <<>>, result |-> <<>>,
             is_finished |-> FALSE]

CleanInputs ==
    {[kind |-> d, resp |-> o, text |-> Wrap(d, JsonText(o))] :
        d \in Dialects, o \in ResponseObjects}
    \cup {[kind |-> "other", resp |-> NoObject, text |-> t] : t \in OtherTexts}

\* llm._clean_markdown_response(text) is called
CallsClean(input) ==
    /\ Len(unit) < MaxCleanCalls
    /\ unit' = Append(unit, [op |-> "clean", input |-> input,
                             out |-> CleanMarkdownResponseText(input.text)])
    /\ UNCHANGED <<agent, twin, checkpoint_file, runs, llm_calls, reported_tokens,
                   start, last_response, trace>>

NextClean == \E input \in CleanInputs : CallsClean(input)

SpecClean == InitUnit /\ [][NextClean]_vars


\* the calls of the normalizer made so far
CleanCalls == {k \in 1..Len(unit) : unit[k].op = "clean"}

\* C26: the normalizer never raises: whatever text it is given, a
\* <function_calls> block around text that is no JSON and an unterminated
\* block, fence or object included, _clean_markdown_response returns a string.
C26_NeverRaises ==
    \A k \in CleanCalls : unit[k].out.raised = None

\* the text is the JSON of the object, up to the whitespace around it; on
\* the texts the normalizer returns this is when json.loads gives the object
ParsesInto(text, object) == Strip(text) = JsonText(object)

\* C27: the normalizer leaves a response object alone: the clean JSON of an
\* AgentResponse, whatever its string fields hold, comes back unchanged up to
\* the whitespace around it, and the same JSON wrapped in a supported dialect
\* (fence, preamble, trailing prose) comes back as text that parses into the
\* same AgentResponse.
C27_Idempotence ==
    \A k \in CleanCalls :
        unit[k].input.kind \in Dialects =>
            /\ unit[k].out.raised = None
            /\ ParsesInto(unit[k].out.text, unit[k].input.resp)


(***************************************************************************)
(* The checkpoint file as text (framework/agents.py 121-151).              *)
(*                                                                         *)
(* save_checkpoint dumps every message to a dict of JSON values and        *)
(* writes the checkpoint with json.dump(indent=2); load_checkpoint reads   *)
(* the text with json.load and builds a Message from every dict.  The      *)
(* agent state is taken with the Python values of its fields: a str is a   *)
(* text (a sequence of pieces), an optional field is <<>> for None and     *)
(* <<value>> otherwise, an ErrorCode is the name of the member, a dict is  *)
(* the sequence of its items, and a value of type Any is given with its    *)
(* type.  The file is assumed to be one that save_checkpoint wrote.        *)
(***************************************************************************)
\* ErrorCode: the value of every member
ErrorCodeValues ==
    [API_ERROR |-> "api_error", VALIDATION_ERROR |-> "validation_error",
     EXECUTION_ERROR |-> "execution_error", TIMEOUT |-> "timeout",
     MAX_TURNS_REACHED |-> "max_turns_reached", PARSE_ERROR |-> "parse_error",
     CONTENT_FILTER |-> "content_filter", EMPTY_RESPONSE |-> "empty_response"]

\* ErrorCode(value): the member that has the value
ErrorCodeMember(value) ==
    CHOOSE member \in DOMAIN ErrorCodeValues : ErrorCodeValues[member] = value

\* values of type Any: None, a bool, a str
PyNone == [type |-> "NoneType", v |-> <<>>]

PyBoolean(b) == [type |-> "bool", v |-> <<PyBool(b)>>]

PyStr(text) == [type |-> "str", v |-> text]

\* what json.dump writes for such a value
DumpScalar(x) ==
    IF x.type = "NoneType" THEN <<"null">>
    ELSE IF x.type = "bool" THEN <<IF x.v = <<"True">> THEN "true" ELSE "false">>
    ELSE JsonString(x.v)

\* the str a JSON string literal stands for
StrOf(value) == JsonStringFrom(value, 2, <<>>).text

\* the int a JSON number stands for
IntOf(value) == CHOOSE n \in JsonInts : <<ToString(n)>> = value

\* the Python value json.load gives for the text of a null, a literal or a
\* string
LoadScalar(value) ==
    IF value = <<"null">> THEN PyNone
    ELSE IF value \in {<<"true">>, <<"false">>} THEN PyBoolean(value = <<"true">>)
    ELSE PyStr(StrOf(value))

\* json.dump(indent=2): a new line, indented by level
IndentWidth == 2

Line(level) == <<"nl">> \o [i \in 1..(IndentWidth * level) |-> "sp"]

RECURSIVE DumpItemsFrom(_, _, _)
DumpItemsFrom(items, k, level) ==
    IF k > Len(items) THEN <<>>
    ELSE (IF k > 1 THEN <<",">> ELSE <<>>) \o Line(level) \o items[k]
         \o DumpItemsFrom(items, k + 1, level)

\* a list whose items are written already, the list standing at level
DumpList(items, level) ==
    IF items = <<>> THEN <<"[", "]">>
    ELSE <<"[">> \o DumpItemsFrom(items, 1, level + 1) \o Line(level) \o <<"]">>

RECURSIVE DumpMembersFrom(_, _, _)
DumpMembersFrom(members, k, level) ==
    IF k > Len(members) THEN <<>>
    ELSE (IF k > 1 THEN <<",">> ELSE <<>>) \o Line(level)
         \o JsonString(members[k].key) \o <<":">> \o members[k].value
         \o DumpMembersFrom(members, k + 1, level)

\* a dict whose values are written already, the dict standing at level
DumpDict(members, level) ==
    IF members = <<>> THEN <<"{", "}">>
    ELSE <<"{">> \o DumpMembersFrom(members, 1, level + 1) \o Line(level) \o <<"}">>

Member(name, value) == [key |-> <<name>>, value |-> value]

\* a dict[str, Any] with its values written
DumpAny(dict, level) ==
    DumpDict([k \in 1..Len(dict) |->
                 [key |-> dict[k].key, value |-> DumpScalar(dict[k].value)]], level)

\* a ToolCall dumped and written
ToolCallDump(tc, level) ==
    DumpDict(<<Member("id", JsonString(tc.id)),
               Member("tool", JsonString(tc.tool)),
               Member("args", DumpAny(tc.args, level + 1))>>, level)

\* an optional int
JsonOptionalInt(field) == IF field = <<>> THEN <<"null">> ELSE <<ToString(field[1])>>

\* msg.model_dump(mode="json") as json.dump writes it: the fields in the
\* order of the class, an enum member by its value, None as null
MessageDump(m, level) ==
    DumpDict(
        <<Member("role", JsonString(m.role)),
          Member("content", JsonString(m.content)),
          Member("timestamp", <<m.timestamp>>),
          Member("error_code",
                 IF m.error_code = <<>> THEN <<"null">>
                 ELSE JsonString(<<ErrorCodeValues[m.error_code[1]]>>)),
          Member("tool_calls",
                 IF m.tool_calls = <<>> THEN <<"null">>
                 ELSE DumpList([k \in 1..Len(m.tool_calls[1]) |->
                                   ToolCallDump(m.tool_calls[1][k], level + 2)],
                               level + 1)),
          Member("metadata",
                 IF m.metadata = <<>> THEN <<"null">>
                 ELSE DumpAny(m.metadata[1], level + 1)),
          Member("tool_call_id", JsonOptional(m.tool_call_id)),
          Member("name", JsonOptional(m.name)),
          Member("tokens_in", JsonOptionalInt(m.tokens_in)),
          Member("tokens_out", JsonOptionalInt(m.tokens_out))>>, level)

\* save_checkpoint: the text of the file
SaveCheckpointText(a) ==
    DumpDict(
        <<Member("messages",
                 DumpList([i \in 1..Len(a.messages) |-> MessageDump(a.messages[i], 2)], 1)),
          Member("turn_count", <<ToString(a.turn_count)>>),
          Member("tokens_used", <<ToString(a.tokens_used)>>)>>, 0)

\* json.load on a text: the items of the list or dict it holds, the key of
\* an item of a dict being <<key>>
JsonLoad(text) == JsonValueAt(text, SkipWhitespace(text, 1)).parts

\* d[name]; a key the dict lacks reads as null, the default of the
\* optional fields
Get(d, name) ==
    IF \E k \in 1..Len(d) : d[k].key = <<<<name>>>>
    THEN d[CHOOSE k \in 1..Len(d) : d[k].key = <<<<name>>>>].value
    ELSE <<"null">>

\* an optional str and an optional int
OptionalStr(value) == IF value = <<"null">> THEN <<>> ELSE <<StrOf(value)>>

OptionalInt(value) == IF value = <<"null">> THEN <<>> ELSE <<IntOf(value)>>

\* a dict[str, Any] from its text
AnyFromJson(value) ==
    LET d == JsonLoad(value)
    IN  [k \in 1..Len(d) |-> [key |-> d[k].key[1], value |-> LoadScalar(d[k].value)]]

\* ToolCall validated from a dict
ToolCallFromDict(d) ==
    [id |-> StrOf(Get(d, "id")), tool |-> StrOf(Get(d, "tool")),
     args |-> AnyFromJson(Get(d, "args"))]

\* list[ToolCall] validated from a list of dicts
ToolCallsFromList(list) ==
    [k \in 1..Len(list) |-> ToolCallFromDict(JsonLoad(list[k].value))]

\* a Message(**msg_dict) that does not take the name
MessageFromDictWithoutName(d) ==
    [role |-> StrOf(Get(d, "role")),
     content |-> StrOf(Get(d, "content")),
     timestamp |-> Get(d, "timestamp")[1],
     error_code |-> IF Get(d, "error_code") = <<"null">> THEN <<>>
                    ELSE <<ErrorCodeMember(StrOf(Get(d, "error_code"))[1])>>,
     tool_calls |-> IF Get(d, "tool_calls") = <<"null">> THEN <<>>
                    ELSE <<ToolCallsFromList(JsonLoad(Get(d, "tool_calls")))>>,
     metadata |-> IF Get(d, "metadata") = <<"null">> THEN <<>>
                  ELSE <<AnyFromJson(Get(d, "metadata"))>>,
     tool_call_id |-> OptionalStr(Get(d, "tool_call_id")),
     name |-> <<>>,
     tokens_in |-> OptionalInt(Get(d, "tokens_in")),
     tokens_out |-> OptionalInt(Get(d, "tokens_out"))]

\* Message(**msg_dict): every field validated from the JSON value
MessageFromDict(d) ==
    [role |-> StrOf(Get(d, "role")),
     content |-> StrOf(Get(d, "content")),
     timestamp |-> Get(d, "timestamp")[1],
     error_code |-> IF Get(d, "error_code") = <<"null">> THEN <<>>
                    ELSE <<ErrorCodeMember(StrOf(Get(d, "error_code"))[1])>>,
     tool_calls |-> IF Get(d, "tool_calls") = <<"null">> THEN <<>>
                    ELSE <<ToolCallsFromList(JsonLoad(Get(d, "tool_calls")))>>,
     metadata |-> IF Get(d, "metadata") = <<"null">> THEN <<>>
                  ELSE <<AnyFromJson(Get(d, "metadata"))>>,
     tool_call_id |-> OptionalStr(Get(d, "tool_call_id")),
     name |-> OptionalStr(Get(d, "name")),
     tokens_in |-> OptionalInt(Get(d, "tokens_in")),
     tokens_out |-> OptionalInt(Get(d, "tokens_out"))]

\* load_checkpoint
LoadCheckpointText(a, text) ==
    LET checkpoint == JsonLoad(text)
        messages == JsonLoad(Get(checkpoint, "messages"))
    IN  [a EXCEPT !.messages = [i \in 1..Len(messages) |->
                                   MessageFromDict(JsonLoad(messages[i].value))],
                  !.turn_count = IntOf(Get(checkpoint, "turn_count")),
                  !.tokens_used = IntOf(Get(checkpoint, "tokens_used"))]

(***************************************************************************)
(* SpecRT: an agent in any state saves a checkpoint and another agent      *)
(* (twin, newly built) loads it.                                           *)
(***************************************************************************)
\* a text with a quote, a backslash, a newline, a brace and a blank in it
RTText == <<"w", Quote, Backslash, "nl", "{", "sp", "w">>

RTToolCall ==
    [id |-> <<"call_1">>, tool |-> <<"calc">>,
     args |-> <<[key |-> <<"x">>, value |-> PyStr(RTText)],
                [key |-> <<"y">>, value |-> PyNone]>>]

\* messages with every combination of the optional fields: error_code,
\* tool_call_id, name, tokens_in and tokens_out None or set; tool_calls
\* None, empty or holding a call; metadata None or holding the entries of
\* an assistant message
RTMessages ==
    [role : {<<"assistant">>},
     content : {RTText},
     timestamp : {"1.5"},
     error_code : {<<>>, <<"PARSE_ERROR">>},
     tool_calls : {<<>>, <<<<>>>>, <<<<RTToolCall>>>>},
     metadata : {<<>>,
                 <<<<[key |-> <<"reasoning">>, value |-> PyStr(<<"thinking">>)],
                     [key |-> <<"is_finished">>, value |-> PyBoolean(TRUE)],
                     [key |-> <<"finish_reason">>, value |-> PyNone]>>>>},
     tool_call_id : {<<>>, <<<<"call_1">>>>},
     name : {<<>>, <<<<"calc">>>>},
     tokens_in : {<<>>, <<0>>},
     tokens_out : {<<>>, <<1>>}]

\* the messages that come after the first, in turn: a user message with
\* every optional field None and an empty content, and a tool message with
\* every optional field set, its metadata to an empty dict
RTFollowers ==
    <<[role |-> <<"user">>, content |-> <<>>, timestamp |-> "1.5", error_code |-> <<>>,
       tool_calls |-> <<>>, metadata |-> <<>>, tool_call_id |-> <<>>, name |-> <<>>,
       tokens_in |-> <<>>, tokens_out |-> <<>>],
      [role |-> <<"tool">>, content |-> <<"w">>, timestamp |-> "1.5",
       error_code |-> <<"EXECUTION_ERROR">>, tool_calls |-> <<<<RTToolCall>>>>,
       metadata |-> <<<<>>>>,
       tool_call_id |-> <<<<"call_1">>>>, name |-> <<<<"calc">>>>,
       tokens_in |-> <<1>>, tokens_out |-> <<0>>]>>

RTTail(n) == [k \in 1..n |-> RTFollowers[((k - 1) % Len(RTFollowers)) + 1]]

\* the message sequences of the agent that saves: none, or any first
\* message and the ones that come after it
RTSequences ==
    {<<>>} \cup {<<m>> \o RTTail(n) : m \in RTMessages, n \in 0..(RTMaxMessages - 1)}

\* save_checkpoint(p) called on the agent
Saves ==
    /\ checkpoint_file' = <<SaveCheckpointText(agent)>>
    /\ checkpoint_file' # checkpoint_file
    /\ UNCHANGED <<agent, twin, runs, llm_calls, reported_tokens, start, last_response,
                   unit, trace>>

\* load_checkpoint(p) called on the other agent
Loads ==
    /\ checkpoint_file # <<>>
    /\ twin.pc = "idle"
    /\ twin' = [LoadCheckpointText(twin, checkpoint_file[1]) EXCEPT !.pc = "loaded"]
    /\ UNCHANGED <<agent, checkpoint_file, runs, llm_calls, reported_tokens, start,
                   last_response, unit, trace>>

InitRT ==
    \E msgs \in RTSequences, t \in 0..RTMaxCount, k \in 0..RTMaxCount :
        /\ agent = [NewAgent(RepositoryLLM, Tools, <<>>, 1)
                      EXCEPT !.messages = msgs, !.turn_count = t, !.tokens_used = k]
        /\ twin = NewAgent(RepositoryLLM, Tools, <<>>, 1)
        /\ checkpoint_file = <<>>
        /\ runs = 0
        /\ llm_calls = 0
        /\ reported_tokens = 0
        /\ start = NoStart
        /\ last_response = NoProviderResponse
        /\ unit = <<>>
        /\ trace = NoTrace

NextRT == Saves \/ Loads

SpecRT == InitRT /\ [][NextRT]_vars

(***************************************************************************)
(* C13  Checkpoint round-trip.  Whatever the state of the agent that       *)
(* saves (a sequence of messages with any combination of error_code,       *)
(* tool_calls, tool_call_id, name, tokens_in, tokens_out and metadata set  *)
(* or None; turn_count; tokens_used), the file is JSON that holds its      *)
(* counters and one entry per message, and the other agent, once it has    *)
(* loaded the file, has a message sequence equal field by field and the    *)
(* same turn_count and tokens_used.                                        *)
(***************************************************************************)
C13_RoundTrip ==
    /\ checkpoint_file # <<>> =>
          LET text == checkpoint_file[1]
              file == JsonValueAt(text, SkipWhitespace(text, 1))
          IN  /\ file.ok /\ SkipWhitespace(text, file.next) > Len(text)
              /\ IntOf(Get(file.parts, "turn_count")) = agent.turn_count
              /\ IntOf(Get(file.parts, "tokens_used")) = agent.tokens_used
              /\ Len(JsonLoad(Get(file.parts, "messages"))) = Len(agent.messages)
    /\ twin.pc = "loaded" =>
          /\ Len(twin.messages) = Len(agent.messages)
          /\ \A i \in 1..Len(agent.messages) :
                /\ DOMAIN twin.messages[i] = DOMAIN agent.messages[i]
                /\ \A f \in DOMAIN agent.messages[i] :
                      twin.messages[i][f] = agent.messages[i][f]
          /\ twin.turn_count = agent.turn_count
          /\ twin.tokens_used = agent.tokens_used

\* loaded: a message with every optional field set, tool call and metadata
\* included, followed by a message with every optional field None, and
\* both counters
C13_Witness ==
    /\ twin.pc = "loaded"
    /\ twin.turn_count = 1 /\ twin.tokens_used = 1
    /\ Len(twin.messages) > 1
    /\ twin.messages[1].error_code = <<"PARSE_ERROR">>
    /\ twin.messages[1].tool_calls = <<<<RTToolCall>>>>
    /\ twin.messages[1].tool_call_id = <<<<"call_1">>>>
    /\ twin.messages[1].name = <<<<"calc">>>>
    /\ twin.messages[1].tokens_in = <<0>> /\ twin.messages[1].tokens_out = <<1>>
    /\ twin.messages[1].metadata # <<>> /\ Len(twin.messages[1].metadata[1]) > 1
    /\ twin.messages[1].content = RTText
    /\ \E i \in 2..Len(twin.messages) :
          /\ twin.messages[i].tool_calls = <<>>
          /\ twin.messages[i].tokens_in = <<>> /\ twin.messages[i].tokens_out = <<>>
          /\ twin.messages[i].metadata = <<>>
          /\ twin.messages[i].error_code = <<>>

\* the assistant message of the response the run finished on
Finishing(j) ==
    /\ LastAssistant(j)
    /\ agent.messages[j].metadata.is_finished = PyBool(TRUE)

\* the messages from position i on are the tool messages of the calls, in
\* the order of the calls, and nothing follows them
AnswersFrom(messages, i, calls) ==
    /\ Len(messages) = i + Len(calls) - 1
    /\ \A k \in 1..Len(calls) :
          /\ messages[i + k - 1].role = "tool"
          /\ messages[i + k - 1].tool_call_id = calls[k].id
          /\ messages[i + k - 1].name = calls[k].tool

\* C28: finishing with pending tool calls: when a response carries tool
\* calls and is_finished = true, every one of its calls has been executed
\* and its tool message appended by the time run() returns SUCCESS, and the
\* trajectory of the Result holds those tool messages.
C28_FinishAfterTools ==
    (HasReturned /\ agent.outcome.status = "success") =>
        \E j \in Assistants :
            /\ Finishing(j)
            /\ AnswersFrom(agent.messages, j + 1, Calls(j))
            /\ Len(agent.tool_results) = Len(Calls(j))
            /\ agent.outcome.trajectory = agent.messages
            /\ AnswersFrom(agent.outcome.trajectory, j + 1, Calls(j))

\* a run that returned SUCCESS on a response with two tool calls, one of
\* which failed
C28_Witness ==
    /\ HasReturned /\ agent.outcome.status = "success"
    /\ \E j \in Assistants :
          /\ Finishing(j)
          /\ Len(Calls(j)) = 2
          /\ FailedCalls(j) # {} /\ FailedCalls(j) # {1, 2}
          /\ Len(agent.outcome.trajectory) = j + 2


\* the observers that implement every hook
FullObservers == {i \in 1..Len(agent.observers) : agent.observers[i] = AllHooks}

\* the hook calls observer i received during the current run, in order
Seen(i) == SelectSeq(agent.events, LAMBDA e : e.observer = i)

\* the same, each as hook and turn
HooksSeen(i) == [k \in 1..Len(Seen(i)) |-> <<Seen(i)[k].event, Seen(i)[k].turn>>]

\* the assistant message that turn t of the current run appended: none when
\* the provider call of the turn raised
MessageOfTurn(t) ==
    {j \in AssistantIndexes :
        start.turn_count + Cardinality({i \in AssistantIndexes : i <= j}) = t}

\* the tool messages that follow assistant message j
Executed(j) ==
    Cardinality({i \in ToolIndexes :
                    i > j /\ \A m \in (j + 1)..i : agent.messages[m].role = "tool"})

\* the tool calls of turn t are all done and nothing was raised among them
TurnOver(j, t) == ~InProgress(j) /\ ~(HasRaised /\ t = agent.turn_count)

Repeat(n, x) == [k \in 1..n |-> x]

\* what an observer is to be told in turn t: the start of the turn; then,
\* unless the provider call raised, on_error for a semantic error or
\* on_llm_response, one on_tool_execution per tool call executed and, when
\* they are all done, one on_error per call that failed
TurnEvents(t) ==
    <<<<"on_turn_start", t>>>> \o
    IF MessageOfTurn(t) = {} THEN <<>>
    ELSE LET j == CHOOSE j \in MessageOfTurn(t) : TRUE
         IN  IF agent.messages[j].error_code # None
             THEN <<<<"on_error", t>>>>
             ELSE <<<<"on_llm_response", t>>>>
                  \o Repeat(Executed(j), <<"on_tool_execution", t>>)
                  \o Repeat(IF TurnOver(j, t)
                            THEN Cardinality({k \in 1..Len(Calls(j)) :
                                                 CallFailed(Calls(j)[k])})
                            ELSE 0,
                            <<"on_error", t>>)

RECURSIVE EventsFrom(_)
\* the turns from t to the current one, one after the other
EventsFrom(t) ==
    IF t > agent.turn_count THEN <<>> ELSE TurnEvents(t) \o EventsFrom(t + 1)

\* what the return of the run adds
ReturnEvents ==
    IF HasReturned /\ agent.outcome.status = "success"
    THEN <<<<"on_finish", 0>>>>
    ELSE IF HasReturned /\ agent.outcome.status = "max_turns_reached"
    THEN <<<<"on_error", agent.turn_count>>>>
    ELSE <<>>

\* the positions at which the observer was told the hook
SeenAt(i, event) == {k \in 1..Len(Seen(i)) : Seen(i)[k].event = event}

\* the order of the hooks an observer is told over the turns of a run:
\* on_turn_start once per turn counted, with the new turn_count, ahead of
\* what the provider call of the turn yields; on_finish exactly once, as
\* the last event, if and only if the run returns SUCCESS; the on_error
\* that reports max turns last when the run returns MAX_TURNS_REACHED
EventOrder ==
    \A i \in FullObservers :
        runs > 0 =>
            /\ HooksSeen(i) = EventsFrom(start.turn_count + 1) \o ReturnEvents
            /\ \A j \in AssistantIndexes :
                  (agent.messages[j].error_code = None /\ agent.pc = "loop")
                      => Executed(j) = Len(Calls(j))
            /\ Cardinality(SeenAt(i, "on_finish")) =
                  IF HasReturned /\ agent.outcome.status = "success" THEN 1 ELSE 0
            /\ SeenAt(i, "on_finish") \subseteq {Len(Seen(i))}
            /\ (HasReturned /\ agent.outcome.status = "max_turns_reached") =>
                  /\ Seen(i) # <<>>
                  /\ Seen(i)[Len(Seen(i))].event = "on_error"
                  /\ Seen(i)[Len(Seen(i))].error = MaxTurnsError

\* C29: observer event order.  In every run an observer is told
\* on_turn_start once per turn, with the new turn_count (consecutive
\* values), ahead of the provider call of that turn; the turn then gives
\* on_llm_response or, for a semantic error, on_error, followed by one
\* on_tool_execution per tool call; on_finish is told exactly once, as the
\* last event, if and only if the run returns SUCCESS; when the run
\* returns MAX_TURNS_REACHED the last event is the on_error that reports
\* max turns.
C29_EveryTurnYields ==
    /\ EventOrder
    /\ \A i \in FullObservers :
          \A k \in SeenAt(i, "on_turn_start") :
              /\ k < Len(Seen(i))
              /\ Seen(i)[k + 1].event \in {"on_llm_response", "on_error"}
              /\ Seen(i)[k + 1].turn = Seen(i)[k].turn


(***************************************************************************)
(* Direct calls of the observer bus: agent._notify(event) on an agent with *)
(* three observers, with any of them raising in the hook.                  *)
(***************************************************************************)
MaxNotifyCalls == 2

\* three observers of every hook; one of a single hook between two that
\* implement more; one without hooks between two of every hook
NotifyConfigs ==
    {<<AllHooks, AllHooks, AllHooks>>,
     <<{"on_turn_start", "on_error"}, {"on_error"}, AllHooks>>,
     <<AllHooks, {}, AllHooks>>}

\* agent._notify(event) is called; the hooks of the observers in bad raise
CallsNotify(event, bad) ==
    /\ Len(unit) < MaxNotifyCalls
    /\ agent' = Notified(agent, event, 0, bad)
    /\ unit' = Append(unit, [op |-> "notify",
                             input |-> [event |-> event, bad |-> bad],
                             out |-> Notify(agent.observers, event, bad)])
    /\ UNCHANGED <<twin, checkpoint_file, runs, llm_calls, reported_tokens,
                   start, last_response, trace>>

InitNotify ==
    \E obs \in NotifyConfigs :
        /\ agent = NewAgent(RepositoryLLM, Tools, obs, 1)
        /\ twin = NewAgent(RepositoryLLM, Tools, <<>>, 1)
        /\ checkpoint_file = <<>>
        /\ runs = 0
        /\ llm_calls = 0
        /\ reported_tokens = 0
        /\ start = NoStart
        /\ last_response = NoProviderResponse
        /\ unit = <<>>
        /\ trace = NoTrace

NextNotify == \E event \in Hooks, bad \in SUBSET Observers : CallsNotify(event, bad)

SpecNotify == InitNotify /\ [][NextNotify]_vars

\* the observers that implement the hook
Implementing(event) == {i \in Observers : event \in agent.observers[i]}

\* the observers whose hook raised in call k of _notify
FailedIn(k) == unit[k].input.bad \cap Implementing(unit[k].input.event)

\* the observers call k of _notify invoked, as a set
InvokedIn(k) == {unit[k].out.invoked[n] : n \in 1..Len(unit[k].out.invoked)}

\* C30: observer isolation.  When several observers are registered and one
\* raises in a hook, every other observer that implements the hook is still
\* invoked for that event, in registration order, and the one that failed is
\* still invoked for later events; nothing leaves _notify.
C30_Isolation ==
    \A k \in UnitCalls("notify") :
        /\ ~unit[k].out.escaped
        /\ InvokedIn(k) = Implementing(unit[k].input.event)
        /\ \A m, n \in 1..Len(unit[k].out.invoked) :
              m < n => unit[k].out.invoked[m] < unit[k].out.invoked[n]
        /\ \A earlier \in 1..(k - 1) :
              FailedIn(earlier) \cap Implementing(unit[k].input.event)
                  \subseteq InvokedIn(k)

\* the second of three observers raised in a hook all three implement, the
\* third was invoked after it, and the second is invoked for the next event
C30_Witness ==
    /\ Len(unit) = 2
    /\ FailedIn(1) = {2}
    /\ unit[1].out.invoked = <<1, 2, 3>>
    /\ unit[1].out.raised
    /\ 2 \in InvokedIn(2)
    /\ unit[2].input.event # unit[1].input.event


\* the registered tools of that name
Registered(tool_name) ==
    {n \in 1..Len(agent.tools) : agent.tools[n].name = tool_name}

\* the calls of assistant message j, among those executed so far, whose
\* tool name stands for no registered tool or for more than one
Unresolvable(j) ==
    {k \in 1..Answered(j) : Cardinality(Registered(Calls(j)[k].tool)) # 1}

\* C31: unresolvable tool names.  A tool call whose name matches no
\* registered tool, or more than one, executes none of them: its tool-role
\* message carries the id of the call and says the tool was not found,
\* not what a tool returned; the remaining calls of the turn are still
\* executed, on_error is notified for it when they are done, nothing is
\* raised, and the turn ends as any other turn does.
C31_Unresolvable ==
    /\ agent.outcome.kind = "raised" => (AttributeRaised /\ Assistants = {})
    /\ \A j \in Assistants :
          /\ \A k \in Unresolvable(j) :
                /\ agent.messages[j + k].role = "tool"
                /\ agent.messages[j + k].tool_call_id = Calls(j)[k].id
                /\ agent.messages[j + k].name = Calls(j)[k].tool
                /\ agent.messages[j + k].content = "Tool not found"
                /\ k \in FailedCalls(j)
                /\ InProgress(j) =>
                      /\ agent.tool_results[k].status = "error"
                      /\ agent.tool_results[k].value = None
          /\ (Unresolvable(j) # {} /\ ~InProgress(j)) =>
                /\ Executed(j) = Len(Calls(j))
                /\ CountEvents("on_error", TurnOf(j))
                      = Cardinality(FailedCalls(j)) + BudgetErrors(j)
                /\ CountEvents("on_error", TurnOf(j)) >= Cardinality(Unresolvable(j))
                /\ LastAssistant(j) =>
                      \/ agent.pc = "loop" /\ agent.outcome.kind = "none"
                      \/ HasReturned

\* a turn whose first call names a tool registered twice and whose second
\* call names none: both answered as not found, and another provider call
\* made after them
C31_Witness ==
    \E j \in Assistants :
        /\ Len(Calls(j)) = 2 /\ Unresolvable(j) = {1, 2}
        /\ Cardinality(Registered(Calls(j)[1].tool)) = 2
        /\ Registered(Calls(j)[2].tool) = {}
        /\ agent.messages[j + 2].content = "Tool not found"
        /\ \E i \in Assistants : i > j


\* the response that carries the tool calls of native response r, with
\* their ids and arguments, as canonical JSON in its content
CanonicalJson(r) ==
    ProviderResponse("ok", "ok", "stop",
                     Content("json", AgentResponse("thinking", r.native.calls,
                                                   None, FALSE)),
                     NoNative, r.usage)

RECURSIVE ToolsDone(_)
\* the tool calls of the turn in progress executed to the last
ToolsDone(a) == IF a.pc = "tools" THEN ToolsDone(ToolStep(a, {})) ELSE a

\* one whole turn on provider response r
WholeTurn(a, r) == ToolsDone(TurnStep(a, r, {}))

\* the agent without the reasoning text of its responses
WithoutReasoning(a) ==
    [a EXCEPT !.messages = [i \in 1..Len(a.messages) |->
                               [a.messages[i] EXCEPT !.metadata.reasoning = None]],
              !.cur.reasoning = None]

\* the provider call of the step returned tool calls natively
IsNativeCall ==
    /\ IsModelCall
    /\ last_response'.finish_reason = "tool_calls"
    /\ last_response'.native.kind = "valid"

\* C32: protocol agnosticism.  A provider response that returns tool calls
\* natively and one that carries the same calls, ids and arguments as
\* canonical JSON in its content drive the loop to the same state: the
\* assistant message has the same ToolCall list, in the same order and with
\* the same ids, is_finished is false, the tokens are counted alike, and the
\* turn executes the same tools and appends the same tool-role messages.
C32_ProtocolAgnostic ==
    [][IsNativeCall =>
          LET native == last_response'
              m == agent'.messages[Len(agent'.messages)]
          IN  /\ m.role = "assistant"
              /\ m.tool_calls = native.native.calls
              /\ m.metadata.is_finished = PyBool(FALSE)
              /\ agent'.tokens_used = agent.tokens_used
                    + native.usage.prompt_tokens + native.usage.completion_tokens
              /\ WithoutReasoning(agent')
                    = WithoutReasoning(TurnStep(agent, CanonicalJson(native), {}))
              /\ WithoutReasoning(WholeTurn(agent, native))
                    = WithoutReasoning(WholeTurn(agent, CanonicalJson(native)))
      ]_vars

\* a turn on a native response with two calls, call_2 ahead of call_1, both
\* executed and answered in that order
C32_Witness ==
    /\ last_response.finish_reason = "tool_calls"
    /\ last_response.native.kind = "valid"
    /\ Len(last_response.native.calls) = 2
    /\ last_response.native.calls[1].id = "call_2"
    /\ last_response.native.calls[2].id = "call_1"
    /\ agent.pc = "loop"
    /\ Len(agent.messages) >= 2
    /\ agent.messages[Len(agent.messages) - 1].tool_call_id = "call_2"
    /\ agent.messages[Len(agent.messages)].tool_call_id = "call_1"


\* neither XML dialect matches the text
NoDialect(text) ==
    /\ ConvertXmlToolCallFormatText(text) = text
    /\ ConvertAnthropicFormatText(text) = [raised |-> None, text |-> text]

\* the string the brace scanner works on: the text without its preamble,
\* or what its first fenced block holds
WorkingString(text) == ExtractFence(StripPreambles(text, 1))

RECURSIVE IsEscaped(_, _, _)
\* the character at i, scanning from s, follows a backslash that is not
\* itself escaped
IsEscaped(w, s, i) == i > s /\ w[i - 1] = Backslash /\ ~IsEscaped(w, s, i - 1)

\* the character at i stands inside a double-quoted string opened at or
\* after s: an odd number of quotes, escaped ones left out, comes before it
InString(w, s, i) ==
    Cardinality({q \in s..(i - 1) : w[q] = Quote /\ ~IsEscaped(w, s, q)}) % 2 = 1

\* the braces between s and i that count
CountedBraces(w, s, i, brace) ==
    {p \in s..i : w[p] = brace /\ ~IsEscaped(w, s, p) /\ ~InString(w, s, p)}

\* brace depth after the character at i
Depth(w, s, i) ==
    Cardinality(CountedBraces(w, s, i, "{")) - Cardinality(CountedBraces(w, s, i, "}"))

\* the closing braces at which the depth is back to zero
Balances(w, s) ==
    {i \in CountedBraces(w, s, Len(w), "}") : Depth(w, s, i) = 0}

\* the scanner as the code has it, on working string w
Scanned(w) ==
    LET braces == Positions(w, {"{"})
        s == Min(braces)
    IN  IF braces = {} THEN w
        ELSE IF Balances(w, s) = {} THEN SubSeq(w, s, Len(w))
        ELSE SubSeq(w, s, Min(Balances(w, s)))

\* one character of a scan that honours a backslash inside a double-quoted
\* string only
StatedStep(st, piece) ==
    IF st.escape_next THEN [st EXCEPT !.escape_next = FALSE]
    ELSE IF st.in_string /\ piece = Backslash THEN [st EXCEPT !.escape_next = TRUE]
    ELSE IF piece = Quote THEN [st EXCEPT !.in_string = ~@]
    ELSE IF ~st.in_string /\ piece = "{" THEN [st EXCEPT !.brace_count = @ + 1]
    ELSE IF ~st.in_string /\ piece = "}" THEN [st EXCEPT !.brace_count = @ - 1]
    ELSE st

RECURSIVE StatedEnd(_, _, _)
\* the position at which that scan, begun at i, has the depth back at
\* zero, or 0 when the text ends before
StatedEnd(w, i, st) ==
    IF i > Len(w) THEN 0
    ELSE IF StatedStep(st, w[i]).brace_count = 0 THEN i
    ELSE StatedEnd(w, i + 1, StatedStep(st, w[i]))

\* the result the statement gives for the input text: every brace outside
\* a double-quoted string counts, and a text whose working string holds no
\* '{' comes back as it was given
Stated(text) ==
    LET w == WorkingString(text)
        braces == Positions(w, {"{"})
        s == Min(braces)
        end == StatedEnd(w, s, [brace_count |-> 0, in_string |-> FALSE,
                                escape_next |-> FALSE])
    IN  IF braces = {} THEN text
        ELSE IF end = 0 THEN SubSeq(w, s, Len(w))
        ELSE SubSeq(w, s, end)

\* C33 as stated: brace scanner of the normalizer.  When no XML dialect
\* matches, the result is the part of the working string from its first
\* '{' through the '}' at which the brace depth is back to zero, braces
\* inside double-quoted strings (backslash escapes honoured there) not being
\* counted; when the depth never comes back to zero the result runs from
\* the first '{' to the end; when there is no '{' the input is returned
\* unmodified.
C33_BraceScanner ==
    \A k \in CleanCalls :
        NoDialect(unit[k].input.text) =>
            /\ unit[k].out.raised = None
            /\ unit[k].out.text = Stated(unit[k].input.text)

\* C33 amended: when no XML dialect matches, the result is the part of the
\* working string (the input after preamble stripping and fence
\* extraction) from its first '{' through the first '}' at which the brace
\* depth is back to zero, where a backslash escapes the character after it
\* inside and outside strings, an escaped quote opens or closes no string,
\* and neither an escaped brace nor a brace inside a double-quoted string is
\* counted; when the depth never comes back to zero the result runs from
\* the first '{' to the end of the working string; when the working string
\* holds no '{' the working string is returned, which is the input only if
\* no preamble was stripped and no fenced block extracted.
C33_BraceScannerOfWorkingString ==
    \A k \in CleanCalls :
        NoDialect(unit[k].input.text) =>
            /\ unit[k].out.raised = None
            /\ unit[k].out.text = Scanned(WorkingString(unit[k].input.text))

\* text before the object; a brace and an escaped quote inside a string of
\* it; after the string a backslash before a closing brace, which is
\* therefore not counted; text after the brace that balances the first
C33_Witness ==
    \E k \in CleanCalls :
        LET text == unit[k].input.text
            w == WorkingString(text)
            s == Min(Positions(w, {"{"}))
        IN  /\ NoDialect(text)
            /\ Positions(w, {"{"}) # {} /\ s > 1
            /\ Balances(w, s) # {} /\ Min(Balances(w, s)) < Len(w)
            /\ \E i \in s..Min(Balances(w, s)) : w[i] = "}" /\ InString(w, s, i)
            /\ \E i \in s..Min(Balances(w, s)) : w[i] = Quote /\ IsEscaped(w, s, i)
            /\ \E i \in s..Min(Balances(w, s)) :
                   w[i] = "}" /\ IsEscaped(w, s, i) /\ ~InString(w, s, i)
            /\ unit[k].out.text = SubSeq(w, s, Min(Balances(w, s)))
            /\ unit[k].out.text # Stated(text)


\* the calculator calls that use the size of a test file no listing result
\* before them has surfaced and no earlier turn has computed
UnsurfacedTestSizeUses(messages) ==
    {c \in Ungrounded(messages) :
        \E a \in ArgsOfCall(messages, c) :
            /\ a \in GetGroundTruth(FileSystem).test_file_sizes
            /\ a \notin SurfacedBefore(messages, c[1])
            /\ a \notin ComputedBefore(messages, c[1])}

\* C34: check_used_only_valid_values starts from an empty set of valid
\* values, which grows only with the file sizes that listing results seen so
\* far have surfaced and with the calculator results of earlier turns: it
\* flags a calculator call exactly when an argument is in neither, so a call
\* that uses a true test-file size before any listing result has surfaced it
\* is reported as an invalid use.
C34_SeededEmpty ==
    Validated =>
        /\ \A c \in TraceCalculatorCalls(trace.messages) :
               FlaggedForensic(c) <=> c \in Ungrounded(trace.messages)
        /\ UnsurfacedTestSizeUses(trace.messages) # {} =>
               ~trace.report.forensic.checks[3].passed


(***************************************************************************)
(* The state-machine validator fed one call and its result at a time, on a *)
(* filesystem whose first listing reveals two subdirectories.              *)
(***************************************************************************)
MaxValidatorTurns == 4

\* the calls a turn may hold: a listing of the start directory, of each
\* subdirectory, of the cache directory, or a sum of two test-file sizes
ValidatorCalls ==
    {ListCall(<<"framework">>), ListCall(<<"framework", "docs">>),
     ListCall(<<"framework", "tests">>), ListCall(<<"framework", "__pycache__">>),
     AddCall(1, 2)}

\* the validator a sequence of logged turns has led to
ValidatorAfter(log) ==
    IF log = <<>> THEN ToolCallValidator(WideFileSystem, <<"framework">>)
    ELSE log[Len(log)].after

WideToolMessage(tc) ==
    [Message("tool", IF tc.tool = "mocklistdirectory"
                     THEN MockListDirectory(WideFileSystem, PathOf(tc.args))
                     ELSE Calculator(tc.args))
       EXCEPT !.tool_call_id = tc.id, !.name = tc.tool]

\* the ids a response gives its call: every response is numbered from
\* call_1 by the XML converter, natively called tools carry the provider's
ValidatorIds == {"call_1", "call_2"}

\* the conversation the logged turns recorded: per turn the assistant
\* message with the call and the tool message that answers it
LogMessages(log) ==
    [i \in 1..(2 * Len(log)) |->
        IF i % 2 = 1
        THEN TraceAssistantMessage(<<log[(i + 1) \div 2].input>>, FALSE)
        ELSE WideToolMessage(log[i \div 2].input)]

\* validate_trace on an assistant message with the call tc and on the tool
\* message that answers it, after the turns logged so far:
\* validate_tool_call, then the backward search and process_tool_result
ValidatorTurn(tc) ==
    /\ Len(unit) < MaxValidatorTurns
    /\ LET before == ValidatorAfter(unit)
           messages == LogMessages(unit)
                          \o <<TraceAssistantMessage(<<tc>>, FALSE), WideToolMessage(tc)>>
           said == ScanMessage([validator |-> before, turn |-> Len(unit)],
                               messages, Len(messages) - 1)
           done == ScanMessage(said, messages, Len(messages))
       IN  unit' = Append(unit, [op |-> "validate_tool_call", input |-> tc,
                                 before |-> before, out |-> said.validator,
                                 after |-> done.validator])
    /\ UNCHANGED <<agent, twin, checkpoint_file, runs, llm_calls, reported_tokens,
                   start, last_response, trace>>

NextValidator ==
    \E c \in ValidatorCalls, id \in ValidatorIds :
        ValidatorTurn(ToolCall(id, c.tool, c.args))

SpecValidator == InitUnit /\ [][NextValidator]_vars

\* the logged validations of listing calls
ListingValidations ==
    {k \in UnitCalls("validate_tool_call") : unit[k].input.tool = "mocklistdirectory"}

\* the signature the validator keeps for the call
Signature(tc) == <<"mocklistdirectory", PathOf(tc.args)>>

\* the validation checked the call off
CheckedOff(k) == unit[k].out.required_calls # unit[k].before.required_calls

\* the validation recorded the call as one extra_exploration warning, no
\* violation, and left everything else as it was
OnlyWarned(k) ==
    /\ Len(unit[k].out.warnings) = Len(unit[k].before.warnings) + 1
    /\ SubSeq(unit[k].out.warnings, 1, Len(unit[k].before.warnings))
          = unit[k].before.warnings
    /\ unit[k].out.warnings[Len(unit[k].out.warnings)].type = "extra_exploration"
    /\ unit[k].out.warnings[Len(unit[k].out.warnings)].path = PathOf(unit[k].input.args)
    /\ unit[k].out.required_calls = unit[k].before.required_calls
    /\ unit[k].out.valid_values = unit[k].before.valid_values
    /\ unit[k].out.violations = unit[k].before.violations

\* C35 as stated: a listing call is checked off only when its target is the
\* head of required_calls; any other listing call is recorded as exactly one
\* extra_exploration warning, is no violation, and leaves required_calls,
\* valid_values and violations unchanged.
C35_HeadOnly ==
    \A k \in ListingValidations :
        LET required == unit[k].before.required_calls
            head == required # <<>> /\ Head(required) = Signature(unit[k].input)
        IN  /\ CheckedOff(k) => head
            /\ ~head => OnlyWarned(k)

\* C35 amended: a listing call is checked off when its target is anywhere in
\* required_calls (its first entry for that target is removed, the others
\* keep their order, and no warning is recorded); a listing call whose
\* target is not in required_calls is recorded as exactly one
\* extra_exploration warning, is no violation, and leaves required_calls,
\* valid_values and violations unchanged.
C35_CheckedOffWhenRequired ==
    \A k \in ListingValidations :
        LET required == unit[k].before.required_calls
            sig == Signature(unit[k].input)
        IN  IF InSeq(sig, required)
            THEN /\ unit[k].out.required_calls = RemoveFirst(required, sig)
                 /\ unit[k].out.warnings = unit[k].before.warnings
                 /\ unit[k].out.violations = unit[k].before.violations
                 /\ unit[k].out.valid_values = unit[k].before.valid_values
            ELSE OnlyWarned(k)

\* the second of two required listings is made first and checked off, and a
\* listing that is not required is warned about
C35_Witness ==
    \E k, n \in ListingValidations :
        /\ Len(unit[k].before.required_calls) = 2
        /\ unit[k].before.required_calls[2] = Signature(unit[k].input)
        /\ Len(unit[k].out.required_calls) = 1
        /\ ~InSeq(Signature(unit[n].input), unit[n].before.required_calls)
        /\ OnlyWarned(n)

\* run() is called and enters its loop
EntersLoop == runs' = runs + 1 /\ agent'.pc = "loop"

\* run(reset=False) on an agent that holds messages
Continuation == EntersLoop /\ ~start'.reset /\ ~start'.checkpoint /\ agent.messages # <<>>

\* the run before raised out of its loop and wrote the auto-checkpoint, and
\* run() is called with that checkpoint
Resumption ==
    /\ EntersLoop /\ start'.checkpoint
    /\ HasRaised /\ start.auto_checkpoint /\ agent.outcome.exc # "FileNotFoundError"

\* a checkpoint whose turn_count is above the budget is loaded
LoadsLarger ==
    /\ runs' = runs + 1 /\ start'.checkpoint /\ checkpoint_file # <<>>
    /\ checkpoint_file[1].turn_count > agent.max_turns

(***************************************************************************)
(* C36  Shared turn budget.  turn_count bounds the number of provider      *)
(* calls attempted since the last reset: every attempted call, one that    *)
(* raised included, is made below max_turns and adds exactly one to it; a  *)
(* run continued with reset=False and a resumption from the                *)
(* auto-checkpoint of a run that raised enter their loop with the          *)
(* turn_count the run before ended with; the only other step of a run that *)
(* changes it is an iteration that ends before its provider call (the LLM  *)
(* has no json_mode), which is begun below max_turns and adds one as well. *)
(* So within a run turn_count is the count at loop entry plus the          *)
(* iterations begun, and turn_count <= max_turns unless a checkpoint with  *)
(* a larger turn_count was loaded, which is the only way a run enters its  *)
(* loop above the budget.                                                  *)
(***************************************************************************)
C36_SharedBudget ==
    [][/\ IsModelCall =>
             /\ agent.turn_count < agent.max_turns
             /\ agent'.turn_count = agent.turn_count + 1
       /\ (Continuation \/ Resumption) =>
             /\ start'.turn_count = agent.turn_count
             /\ agent'.turn_count = agent.turn_count
       /\ (runs' = runs /\ ~IsModelCall /\ agent'.turn_count # agent.turn_count) =>
             \/ agent'.messages = <<>>
             \/ /\ AttributeRaised' /\ llm_calls' = llm_calls
                /\ agent.turn_count < agent.max_turns
                /\ agent'.turn_count = agent.turn_count + 1
       /\ (EntersLoop /\ start'.turn_count > agent'.max_turns) =>
             (LoadsLarger \/ agent.turn_count > agent.max_turns)
       /\ agent'.turn_count = start'.turn_count + TurnsBegun'
       /\ start'.turn_count <= agent'.max_turns =>
             agent'.turn_count <= agent'.max_turns
      ]_vars

\* a run that raised in its first provider call was resumed from its
\* auto-checkpoint under a budget of two and made one call more
C36_Witness ==
    /\ runs = 2 /\ start.checkpoint /\ agent.max_turns = 2
    /\ start.turn_count = 1 /\ llm_calls = 1 /\ agent.turn_count = 2
    /\ HasReturned /\ agent.outcome.status = "max_turns_reached"
    /\ checkpoint_file # <<>> /\ checkpoint_file[1].turn_count = 1
    /\ Len(checkpoint_file[1].messages) = 2
    /\ Len(start.messages) = 3

\* the run entered its loop with the turn budget already spent (a reset
\* would have put turn_count at 0, below any budget)
Exhausted ==
    /\ runs > 0 /\ agent.outcome.exc # "FileNotFoundError"
    /\ start.turn_count >= agent.max_turns

\* what the agent holds when run() is called without a reset: its own
\* state, or the content of the checkpoint file
Prior ==
    IF start'.checkpoint
    THEN [messages |-> LoadedMessages,
          turn_count |-> checkpoint_file[1].turn_count,
          tokens_used |-> checkpoint_file[1].tokens_used]
    ELSE [messages |-> agent.messages, turn_count |-> agent.turn_count,
          tokens_used |-> agent.tokens_used]

(***************************************************************************)
(* C37  Continuing with an exhausted budget.  run() called with            *)
(* reset=False or with a checkpoint on prior messages whose turn_count is  *)
(* max_turns or more enters its loop with the prior messages followed by   *)
(* the new user message and with turn_count and tokens_used as they were;  *)
(* its only step is the return of MAX_TURNS_REACHED, which reports that    *)
(* turn_count and tokens_used; it makes no provider call, appends nothing  *)
(* else, and the only event an observer sees is the on_error of the spent  *)
(* budget, never an on_turn_start.                                         *)
(***************************************************************************)
C37_ExhaustedBudget ==
    /\ [](Exhausted =>
             /\ llm_calls = 0
             /\ agent.messages = start.messages
             /\ agent.turn_count = start.turn_count
             /\ agent.tokens_used = start.tokens_used
             /\ \A k \in 1..Len(agent.events) : agent.events[k].event = "on_error"
             /\ agent.pc = "idle" =>
                   /\ HasReturned
                   /\ agent.outcome.status = "max_turns_reached"
                   /\ agent.outcome.value = MaxTurnsMarker
                   /\ agent.outcome.turns = start.turn_count
                   /\ agent.outcome.tokens = start.tokens_used
                   /\ agent.outcome.trajectory = start.messages
                   /\ \A i \in Observers :
                         \E k \in 1..Len(agent.events) :
                            /\ Told(agent.events[k], i, "on_error", start.turn_count)
                            /\ agent.events[k].error = MaxTurnsError)
    /\ [][/\ (EntersLoop /\ Exhausted') =>
                /\ Prior.messages # <<>>
                /\ \E input \in Inputs :
                      agent'.messages = Append(Prior.messages, Message("user", input))
                /\ agent'.turn_count = Prior.turn_count
                /\ agent'.tokens_used = Prior.tokens_used
                /\ agent'.events = <<>>
          /\ (Exhausted /\ agent.pc = "loop" /\ agent' # agent) => HasReturned'
         ]_vars

\* an agent with an observer and a budget of one was run on a checkpoint
\* that holds two turns, and returned
C37_Witness ==
    /\ Exhausted /\ HasReturned /\ start.checkpoint
    /\ agent.max_turns = 1 /\ start.turn_count = 2 /\ agent.turn_count = 2
    /\ Len(agent.observers) = 1 /\ Len(agent.events) = 1
    /\ Len(agent.messages) > 3
    /\ agent.messages[Len(agent.messages)].role = "user"

\* the assistant messages of a sequence
AssistantCount(messages) ==
    Cardinality({i \in 1..Len(messages) : messages[i].role = "assistant"})

\* the turns counted for which the sequence holds no assistant message
Unanswered(messages, turn_count) == turn_count - AssistantCount(messages)

\* the latest provider call raised out of the loop
CallRaised == HasRaised /\ agent.outcome.exc = LastLLM.raised

(***************************************************************************)
(* C38  One assistant message per turn.  A provider call that does not     *)
(* raise adds one to turn_count and appends exactly one assistant message  *)
(* (for a semantic error: one with an error_code and no tool calls),       *)
(* before any tool message of the turn; no other step of a run appends an  *)
(* assistant message or counts a turn; a reset empties both and a          *)
(* continuation keeps both.  So a run that entered its loop with as many   *)
(* assistant messages as turns counted, as every run does when no provider *)
(* call raised since the last reset, has as many whenever it returns.      *)
(***************************************************************************)
C38_OneAssistantPerTurn ==
    /\ []((HasReturned /\ Unanswered(start.messages, start.turn_count) = 0) =>
             AssistantCount(agent.messages) = agent.turn_count)
    /\ []((PlainRun /\ start.reset) => Unanswered(start.messages, start.turn_count) = 0)
    /\ [][/\ (IsModelCall /\ ~CallRaised') =>
                /\ agent'.turn_count = agent.turn_count + 1
                /\ Len(agent'.messages) = Len(agent.messages) + 1
                /\ SubSeq(agent'.messages, 1, Len(agent.messages)) = agent.messages
                /\ agent'.messages[Len(agent'.messages)].role = "assistant"
                /\ LastIsSemantic' =>
                      /\ agent'.messages[Len(agent'.messages)].error_code # None
                      /\ agent'.messages[Len(agent'.messages)].tool_calls = <<>>
          /\ (IsModelCall /\ CallRaised') => agent'.messages = agent.messages
          /\ (runs' = runs /\ ~IsModelCall /\ agent'.messages # <<>>) =>
                /\ AssistantCount(agent'.messages) = AssistantCount(agent.messages)
                /\ agent'.turn_count = agent.turn_count
          /\ Continuation =>
                Unanswered(start'.messages, start'.turn_count)
                   = Unanswered(agent.messages, agent.turn_count)
         ]_vars

\* the latest message before i that is not a tool-role message (0: none)
Opener(i) ==
    LET before == {j \in 1..(i - 1) : agent.messages[j].role # "tool"}
    IN  IF before = {} THEN 0 ELSE CHOOSE j \in before : \A h \in before : h <= j

\* the ids an assistant message asks for
RequestedIds(j) ==
    {agent.messages[j].tool_calls[k].id : k \in 1..Len(agent.messages[j].tool_calls)}

\* the step keeps every message of the sequence where and as it was
KeepsMessages ==
    /\ Len(agent'.messages) >= Len(agent.messages)
    /\ SubSeq(agent'.messages, 1, Len(agent.messages)) = agent.messages

(***************************************************************************)
(* C39  Shape of the message sequence.  A sequence produced by runs that   *)
(* began with a reset has a system message first and nowhere else, and a   *)
(* user message second.  The latest message before a tool-role message     *)
(* that is not itself a tool-role message is an assistant message whose    *)
(* tool_calls hold the id the tool message answers.  An assistant message  *)
(* with an error_code has no tool_calls and no tool-role message directly  *)
(* after it.  Every step keeps the messages already in the sequence as     *)
(* they are, except the entry of a run that resets or loads a checkpoint.  *)
(***************************************************************************)
C39_MessageShape ==
    /\ [](agent.messages # <<>> =>
             /\ Len(agent.messages) >= 2
             /\ agent.messages[1].role = "system"
             /\ agent.messages[2].role = "user"
             /\ \A i \in 2..Len(agent.messages) : agent.messages[i].role # "system")
    /\ [](\A i \in ToolIndexes :
             /\ Opener(i) > 0
             /\ agent.messages[Opener(i)].role = "assistant"
             /\ agent.messages[i].tool_call_id \in RequestedIds(Opener(i)))
    /\ [](\A j \in Assistants :
             agent.messages[j].error_code # None =>
                /\ agent.messages[j].tool_calls = <<>>
                /\ j < Len(agent.messages) => agent.messages[j + 1].role # "tool")
    /\ [][KeepsMessages \/ (runs' = runs + 1 /\ (start'.reset \/ start'.checkpoint))]_vars

\* a run answered a semantic error and then a response with two tool calls,
\* and a second run continued the sequence with its user message
C39_Witness ==
    /\ runs = 2 /\ ~start.reset /\ HasReturned
    /\ Len(agent.messages) = 7
    /\ agent.messages[3].error_code # None
    /\ Len(agent.messages[4].tool_calls) = 2
    /\ agent.messages[5].role = "tool" /\ agent.messages[6].role = "tool"
    /\ agent.messages[5].tool_call_id # agent.messages[6].tool_call_id
    /\ Opener(6) = 4
    /\ agent.messages[7].role = "user"

\* the most recent ToolCall before message i whose id is the tool_call_id
\* of message i
MostRecentCall(messages, i) ==
    LET id == messages[i].tool_call_id
        holders == {j \in 1..(i - 1) : FirstWithId(messages[j].tool_calls, id) # <<>>}
        j == CHOOSE j \in holders : \A h \in holders : h <= j
        hits == {k \in 1..Len(messages[j].tool_calls) : messages[j].tool_calls[k].id = id}
    IN  messages[j].tool_calls[CHOOSE k \in hits : \A h \in hits : h <= k]

(***************************************************************************)
(* C40  Result attribution in the state-machine validate_trace.  Whatever  *)
(* ids the calls of the turns carry, the same id in more than one turn     *)
(* included, the validator state after a tool-role message is the state    *)
(* before it updated once by process_tool_result with the most recent      *)
(* earlier ToolCall whose id is the message's tool_call_id: the result is  *)
(* credited to the call of its own turn and to no call of another turn.    *)
(***************************************************************************)
C40_ResultAttribution ==
    \A k \in 1..Len(unit) :
        LET messages == LogMessages(SubSeq(unit, 1, k))
        IN  unit[k].after =
               ProcessToolResult(unit[k].out, MostRecentCall(messages, 2 * k),
                                 messages[2 * k])

(***************************************************************************)
(* The web debugger (web_debugger.create_app): POST /api/chat/stream       *)
(* drives the agent it was created for without going through run().  The   *)
(* handler returns a generator that the server runs from one yield to the  *)
(* next: it appends the user message and then iterates on its own, each    *)
(* iteration counting a turn, calling _get_agent_response, appending an    *)
(* assistant message built from the metadata of the Result (no error_code, *)
(* no metadata) and, once the server has taken that message, calling       *)
(* _execute_tools.  It tests neither max_turns nor any hook of the loop,   *)
(* reads no attribute of the llm, and writes no checkpoint.  Every         *)
(* exception is caught by the generator and ends the stream; a client that *)
(* goes away closes the generator at the yield it is suspended at.         *)
(* debug_agent serves with several threads on the one agent, so requests   *)
(* overlap: the steps below are the stretches of the generator between two *)
(* points at which another request can run (a yield, the provider call, a  *)
(* tool call).  unit holds the requests, each with the locals of its       *)
(* generator.  The agent may have been run before, as debug_agent's usage  *)
(* shows.                                                                  *)
(***************************************************************************)
max_iterations == 10

\* bounds: chat requests; run() calls made before or after them; the
\* iterations a request gets to once a second request has been posted; the
\* max_turns of the agent the debugger is given
MaxChats == 2
WebRuns == 1
MaxOverlapIterations == 2
WebTurnsBound == 1

\* the assistant message the handler builds from the Result g obtained on
\* agent a; tokens_in is the "tokens" entry of its metadata
WebAssistantMessage(a, g) ==
    [Message("assistant", g.raw_response)
       EXCEPT !.tool_calls = g.resp.tool_calls,
              !.tokens_in = g.agent.tokens_used - a.tokens_used]

\* a request whose generator is at the yield of its user message.  pc is
\* the point the request is at: "next" (the yield of a user or tool
\* message: the while test comes next), "calling" (inside the provider
\* call), "said" (the yield of an assistant message with tool calls:
\* _execute_tools comes next), "tool" (inside execute() of the tool call
\* idx) or "over" (the generator has ended); tool_calls are the calls of
\* the assistant message and turn is the argument _execute_tools was given.
ChatRequest(input) ==
    [call |-> "chat_stream", input |-> input, pc |-> "next", iteration |-> 0,
     tool_calls |-> <<>>, idx |-> 0, turn |-> 0]

\* the generator has ended: its locals are gone
ChatOver(req) == [ChatRequest(req.input) EXCEPT !.pc = "over"]

\* the requests whose generator has not ended
Streaming == {k \in 1..Len(unit) : unit[k].pc # "over"}

\* a chat request with a message that is not empty is served up to the
\* yield of its user message
ChatPost(input) ==
    /\ agent.pc = "idle"
    /\ agent' = Append1(agent, Message("user", input))
    /\ unit' = Append(unit, ChatRequest(input))
    /\ UNCHANGED <<twin, checkpoint_file, runs, llm_calls, reported_tokens, start, last_response, trace>>

\* the while test and the head of an iteration, up to the provider call
ChatIteration(k) ==
    /\ unit[k].pc = "next"
    /\ unit[k].iteration < max_iterations
    /\ Len(unit) > 1 => unit[k].iteration < MaxOverlapIterations
    /\ agent' = [agent EXCEPT !.turn_count = @ + 1]
    /\ unit' = [unit EXCEPT ![k].pc = "calling", ![k].iteration = @ + 1]
    /\ UNCHANGED <<twin, checkpoint_file, runs, llm_calls, reported_tokens, start, last_response, trace>>

\* the provider call gives r: the rest of _get_agent_response and the
\* iteration up to the yield of the assistant message; without tool calls,
\* and when _get_agent_response raises, the generator goes on to its end
ChatReply(k, r) ==
    /\ unit[k].pc = "calling"
    /\ LET g == GetAgentResponse(agent, r)
       IN  IF g.kind = "raise"
           THEN /\ agent' = g.agent
                /\ unit' = [unit EXCEPT ![k] = ChatOver(@)]
           ELSE /\ agent' = Append1(g.agent, WebAssistantMessage(agent, g))
                /\ unit' = [unit EXCEPT ![k] =
                               IF g.resp.tool_calls = <<>> THEN ChatOver(@)
                               ELSE [@ EXCEPT !.pc = "said",
                                              !.tool_calls = g.resp.tool_calls]]
    /\ UNCHANGED <<twin, checkpoint_file, runs, llm_calls, reported_tokens, start, last_response, trace>>

RECURSIVE EnterTool(_, _, _, _, _)
\* the for loop of _execute_tools from the i-th call on, as far as the
\* first execute() it enters: a call whose tool _find_tool does not give
\* enters none, so its tool message is appended and on_tool_execution
\* notified on the way.  idx is the call whose execute() is entered, or
\* past the last call when the loop has ended.
EnterTool(a, tool_calls, i, turn, bad) ==
    IF i > Len(tool_calls) \/ FindTool(a.tools, tool_calls[i].tool) # <<>>
    THEN [agent |-> a, idx |-> i]
    ELSE EnterTool(
             Notified(Append1(a, ToolMessage(ExecuteSingleTool(a.tools, tool_calls[i]))),
                      "on_tool_execution", turn, bad),
             tool_calls, i + 1, turn, bad)

\* request req after the for loop has gone on to entered: inside the next
\* execute(), or, the loop over, at the yield of the tool messages with
\* the while test next
ChatToolsGoOn(req, entered, turn) ==
    IF entered.idx <= Len(req.tool_calls)
    THEN [req EXCEPT !.pc = "tool", !.idx = entered.idx, !.turn = turn]
    ELSE IF req.iteration < max_iterations
    THEN [ChatRequest(req.input) EXCEPT !.iteration = req.iteration]
    ELSE ChatOver(req)

\* the generator is resumed after its assistant message:
\* agent._execute_tools(tool_calls, agent.messages, agent.turn_count) is
\* called with agent.turn_count as it is then, and the for loop goes as far
\* as the first execute()
ChatExecuteTools(k, bad) ==
    /\ unit[k].pc = "said"
    /\ LET entered == EnterTool(agent, unit[k].tool_calls, 1, agent.turn_count, bad)
       IN  /\ agent' = entered.agent
           /\ unit' = [unit EXCEPT ![k] = ChatToolsGoOn(@, entered, agent.turn_count)]
    /\ UNCHANGED <<twin, checkpoint_file, runs, llm_calls, reported_tokens, start, last_response, trace>>

\* execute() of the tool call idx returns: its tool message is appended,
\* on_tool_execution is notified with the turn _execute_tools was given,
\* and the for loop goes on to the next execute() or to its end
ChatTool(k, bad) ==
    /\ unit[k].pc = "tool"
    /\ LET req == unit[k]
           result == ExecuteSingleTool(agent.tools, req.tool_calls[req.idx])
           told == Notified(Append1(agent, ToolMessage(result)),
                            "on_tool_execution", req.turn, bad)
           entered == EnterTool(told, req.tool_calls, req.idx + 1, req.turn, bad)
       IN  /\ agent' = entered.agent
           /\ unit' = [unit EXCEPT ![k] = ChatToolsGoOn(req, entered, req.turn)]
    /\ UNCHANGED <<twin, checkpoint_file, runs, llm_calls, reported_tokens, start, last_response, trace>>

\* the client goes away: the generator is closed at the yield it is at
ChatClose(k) ==
    /\ unit[k].pc \in {"next", "said"}
    /\ unit' = [unit EXCEPT ![k] = ChatOver(@)]
    /\ UNCHANGED <<agent, twin, checkpoint_file, runs, llm_calls, reported_tokens, start, last_response, trace>>

WebToolCalls == {<<ToolCall("call_1", "calculator", "good"), ToolCall("call_2", "flaky", "good")>>}

WebResponses ==
    {ProviderResponse("AuthenticationError", "ok", "stop", NoContent, NoNative,
                      Usage(0, 0)),
     ProviderResponse("ok", "ok", "stop", Content("prose", NoResponse), NoNative,
                      Usage(1, 1))}
    \cup Structured({"json"},
                    {AgentResponse("thinking", <<>>, "answer", TRUE)}
                    \cup {AgentResponse("thinking", tc, None, f) :
                             tc \in WebToolCalls, f \in BOOLEAN},
                    {Usage(1, 1)})

\* the provider responses of a run() made before or after the chat
\* requests: a final answer, or tool calls
WebRunResponses ==
    Structured({"json"},
               {AgentResponse("thinking", <<>>, "answer", TRUE)}
               \cup {AgentResponse("thinking", tc, None, FALSE) : tc \in WebToolCalls},
               {Usage(1, 1)})

InitWeb ==
    \E m \in 1..WebTurnsBound, llm \in LLMs :
        /\ agent = NewAgent(llm, Tools, <<AllHooks>>, m)
        /\ twin = NewAgent(llm, Tools, <<>>, m)
        /\ checkpoint_file = <<>>
        /\ runs = 0
        /\ llm_calls = 0
        /\ reported_tokens = 0
        /\ start = NoStart
        /\ last_response = NoProviderResponse
        /\ unit = <<>>
        /\ trace = NoTrace

NextWeb ==
    \/ \E input \in Inputs, reset \in BOOLEAN :
          runs < WebRuns /\ Streaming = {} /\ Run(input, reset, FALSE, FALSE)
    \/ \E r \in WebRunResponses : ModelCall(r, {})
    \/ ExecTool({})
    \/ MaxTurns({})
    \/ \E input \in Inputs : Len(unit) < MaxChats /\ ChatPost(input)
    \/ \E k \in 1..Len(unit) : ChatIteration(k)
    \/ \E k \in 1..Len(unit), r \in WebResponses : ChatReply(k, r)
    \/ \E k \in 1..Len(unit), bad \in SUBSET Observers : ChatExecuteTools(k, bad)
    \/ \E k \in 1..Len(unit), bad \in SUBSET Observers : ChatTool(k, bad)
    \/ \E k \in 1..Len(unit) : ChatClose(k)

SpecWeb == InitWeb /\ [][NextWeb]_vars

====
